---- MODULE Spec2Model ----
(***************************************************************************)
(* A model of cri-o's ContainerServer (internal/lib/container_server.go):   *)
(* the in-memory state store, the name registrars and ID indices, and the   *)
(* rehydration of sandboxes and containers from their on-disk directories.  *)
(***************************************************************************)
EXTENDS Integers, Sequences, FiniteSets, TLC

(***************************************************************************)
(* Bounds of the model.                                                    *)
(***************************************************************************)
NumPods == 1      \* sandboxes persisted on disk
NumCtrs == 1      \* workload containers persisted on disk
NumLevels == 1    \* distinct SELinux MCS levels
MaxRefs == 2      \* cap on the reference count of one MCS level

Pods == 1..NumPods
Ctrs == 1..NumCtrs

(***************************************************************************)
(* What the per-entity directories hold (config.json annotations).  Ids    *)
(* and names are tuples; the empty tuple is Go's empty string / nil.       *)
(***************************************************************************)
EmptyName == << >>
NoCtr == << >>
BadLabel == <<"label", 0>>
Lvl(n) == <<"label", n>>
Levels == {Lvl(n) : n \in 1..NumLevels}

PodId(i) == <<"pod", i>>
PodName(i) == <<"podname", i>>
InfraId(i) == <<"infra", i>>
InfraName(i) == <<"infraname", i>>
PodLabel(i) == Lvl(((i - 1) % NumLevels) + 1)
CtrId(j) == <<"ctr", j>>
CtrName(j) == <<"ctrname", j>>
CtrPod(j) == ((j - 1) % NumPods) + 1
CtrSandbox(j) == PodId(CtrPod(j))

PodIds == {PodId(i) : i \in Pods}
CtrIds == {CtrId(j) : j \in Ctrs}
InfraIds == {InfraId(i) : i \in Pods}
PodNames == {PodName(i) : i \in Pods}
CtrNames == {CtrName(j) : j \in Ctrs}
InfraNames == {InfraName(i) : i \in Pods}
\* the directory of an id
PodOf(id) == CHOOSE i \in Pods : PodId(i) = id
CtrOf(id) == CHOOSE j \in Ctrs : CtrId(j) = id
\* the id a request handler allocates for an entity it is creating
NewPodId == <<"pod", 0>>
NewCtrId == <<"ctr", 0>>

\* the containers the runtime knows, and the states of a container
OciIds == CtrIds \cup InfraIds \cup {NewCtrId}
ExitCodes == {0, 1}
Running == [status |-> "running", exitCode |-> 0]
Stopped(code) == [status |-> "stopped", exitCode |-> code]
ContainerStates == {Running} \cup {Stopped(code) : code \in ExitCodes}
\* the state of a container object before it was read from disk, a file
\* that does not exist, and a file with a part of an encoded state
NoState == [status |-> "none", exitCode |-> 0]
NoFile == [status |-> "nofile", exitCode |-> 0]
Partial == [status |-> "partial", exitCode |-> 0]
OciName(id) ==
  IF id \in CtrIds THEN CtrName(id[2])
  ELSE IF id \in InfraIds THEN InfraName(id[2])
  ELSE <<"ctrname", 0>>

\* the manager marker of a config.json: absent, this daemon's, another's
NoMarker == << >>
ContainerManagerCRIO == <<"cri-o">>
OtherManager == <<"libpod">>
Markers == {NoMarker, ContainerManagerCRIO, OtherManager}

\* the namespace kinds of a sandbox (NSType), and a kind that is none of them
NETNS == "net"
IPCNS == "ipc"
UTSNS == "uts"
USERNS == "user"
ManagedKinds == {NETNS, IPCNS, UTSNS, USERNS}
InvalidKind == "invalid"
NSTypes == ManagedKinds \cup {InvalidKind}
MaxRequest == 2   \* the longest list of kinds one request names
\* the lists of kinds a request names, no kind twice
NsRequests ==
  {q \in UNION {[1..n -> NSTypes] : n \in 0..MaxRequest} :
     \A i, j \in DOMAIN q : q[i] = q[j] => i = j}
\* paths a join is given: one that does not exist, a directory, and a
\* namespace file of a process
MissingPath == <<"path">>
PlainDir == <<"/tmp">>
ProcSelfNs(k) == <<"/proc/self/ns", k>>
\* <NamespacesDir>/<kind>ns/<uuid>, the path of a mock record, and the
\* namespace file of the infra container's process
PinnedPath(k) == <<"pinned", k>>
FunctorPath(k) == <<"/tmp", k>>
InfraNsFile(pid, k) == <<"/proc", pid, "ns", k>>
NoPath == << >>
\* the pids the infra container is given, and the processes that are alive
ZeroPid == 0
InitPid == 1
BeyondMaxPid == 4194305
InfraPids == {ZeroPid, InitPid, BeyondMaxPid}
LivePids == {InitPid}
NoInfra == [set |-> FALSE, pid |-> ZeroPid]
\* a nil *Namespace, and no call of a pinning function
NilNamespace ==
  [ns |-> FALSE, closed |-> FALSE, initialized |-> FALSE, nsType |-> "",
   nsPath |-> NoPath]
NoPinCall ==
  [func |-> "none", mappings |-> FALSE, nsTypes |-> << >>, ran |-> FALSE,
   failed |-> FALSE, args |-> << >>, unmounts |-> << >>,
   failedUmounts |-> << >>, namespaces |-> << >>, err |-> "nil",
   mounted |-> {}, opened |-> << >>]

\* the archive paths and pod ids of crio-cr's flags, the empty string when
\* the flag is not given
NoArchive == << >>
CpTar == <<"cp.tar">>
NoPod == << >>

\* the arguments of one crio-cr command, and no command run yet
MaxArgs == 3
NoRun ==
  [cmd |-> "none", args |-> << >>, oks |-> << >>, sent |-> << >>,
   out |-> << >>, exit |-> 0]

\* the two versions of the service, the signals the daemon is notified of,
\* and the daemon before its main action has begun
MaxSignals == 2
Versions == {"v1", "v1alpha2"}
ShutdownSignals == {"SIGINT", "SIGTERM"}
Signals == ShutdownSignals \cup {"SIGUSR1", "SIGUSR2", "SIGPIPE", "SIGHUP"}
NewDaemon ==
  [sig |-> << >>, delivered |-> 0, dumps |-> 0, gcs |-> 0, handler |-> 0,
   main |-> 0, graceful |-> FALSE, grpc |-> "serving", http |-> "serving",
   listener |-> "open", mux |-> "serving",
   stream |-> [v \in Versions |-> "serving"],
   monitors |-> [v \in Versions |-> FALSE],
   hooks |-> FALSE, hookSync |-> [v \in Versions |-> 0],
   hookDone |-> [v \in Versions |-> FALSE],
   cancelled |-> FALSE, shutdowns |-> [v \in Versions |-> 0],
   failed |-> FALSE]

\* the deadlines of an ExecSync in seconds, 0 asking for none; no ExecSync
\* in progress
MaxTimeout == 1
Timeouts == 0 .. MaxTimeout
NoExec == [id |-> NoCtr, proc |-> "none", timeout |-> 0]

VARIABLES
  sandboxes,        \* state.sandboxes: sandbox id -> sandbox object
  containers,       \* state.containers: container id -> container object
  infraContainers,  \* state.infraContainers: container id -> container object
  processLevels,    \* state.processLevels: MCS level -> number of sandboxes
  podNameIndex,     \* podNameIndex: pod name -> id holding it
  ctrNameIndex,     \* ctrNameIndex: container name -> id holding it
  podIDIndex,       \* podIDIndex: the set of indexed pod ids
  ctrIDIndex,       \* ctrIDIndex: the set of indexed container ids
  written,          \* container ids whose state.json was written back
  ret,              \* the call that returned last and its result
  startup,          \* the loads done while every call so far was a successful load
  loader,           \* a LoadSandbox in progress: its position and its sandbox
  handlers,         \* the CreateContainer requests in progress
  configs,          \* container ids whose config.json a request has written
  seen,             \* what a concurrent reader last observed of a sandbox
  managers,         \* the manager marker in the config.json of each directory
  stateLock,        \* stateLock: the thread that holds it, 0 when free
  movers,           \* the AddSandbox / RemoveSandbox call of each thread
  runtimeState,     \* what the runtime and the exit file tell of each container
  ctrState,         \* ctr.State(): the state held by each container object
  runtimeCalls,     \* the runtime calls of the call that returned last
  stateFiles,       \* the content of each container's state.json
  tmpFiles,         \* the temporary file of each thread's atomic file writer
  writers,          \* the state-writing call of each thread
  namespace,        \* a Namespace record: closed, initialized, nsType, nsPath
  nsFile,           \* the file at the record's path: mounted, existing
  nsLock,           \* the record's mutex: the thread that holds it, 0 when free
  nsCalls,          \* the Remove call of each thread
  nsLog,            \* what the Remove calls have done to the record so far
  sbNs,             \* the sandbox's netns, ipcns, utsns, userns: kind -> record
  sbInfra,          \* the sandbox's infra container: whether set, and its pid
  pinCall,          \* what the pinning function did in the call that returned last
  sbRemoved,        \* the paths of the records that call called Remove on
  execSync,         \* the ExecSync last begun: container, process, timeout
  staging,          \* the checkpoints in place: container id -> metadata
  checkpointSteps,  \* the steps the Checkpoint that returned last began
  cliRun,           \* the crio-cr command run last: requests, output, exit
  daemon            \* the daemon: signals, handler, main action, servers

storeVars == <<sandboxes, containers, infraContainers, processLevels,
               podNameIndex, ctrNameIndex, podIDIndex, ctrIDIndex, written>>
concVars == <<loader, handlers, configs, seen>>
diskVars == <<managers>>
lockVars == <<stateLock, movers>>
ociVars == <<runtimeState, ctrState, runtimeCalls>>
fileVars == <<stateFiles, tmpFiles, writers>>
nsVars == <<namespace, nsFile, nsLock, nsCalls, nsLog>>
sbVars == <<sbNs, sbInfra, pinCall, sbRemoved>>
execVars == <<execSync>>
cpVars == <<staging, checkpointSteps>>
cliVars == <<cliRun>>
daemonVars == <<daemon>>
lateVars == <<cliVars, daemonVars>>
moreVars == <<sbVars, execVars, cpVars, lateVars>>
auxVars == <<diskVars, lockVars, ociVars, fileVars, nsVars, moreVars>>

(***************************************************************************)
(* Go maps as functions on the set of present keys.                        *)
(***************************************************************************)
EmptyMap == << >>
Put(m, k, v) == [x \in (DOMAIN m) \cup {k} |-> IF x = k THEN v ELSE m[x]]
Del(m, k) == [x \in (DOMAIN m) \ {k} |-> m[x]]
Has(m, k) == k \in DOMAIN m

\* the in-memory state as one value, and its installation as the next state
Store ==
  [sandboxes |-> sandboxes, containers |-> containers,
   infraContainers |-> infraContainers, processLevels |-> processLevels,
   podNameIndex |-> podNameIndex, ctrNameIndex |-> ctrNameIndex,
   podIDIndex |-> podIDIndex, ctrIDIndex |-> ctrIDIndex, written |-> written]

SetStore(s) ==
  /\ sandboxes' = s.sandboxes
  /\ containers' = s.containers
  /\ infraContainers' = s.infraContainers
  /\ processLevels' = s.processLevels
  /\ podNameIndex' = s.podNameIndex
  /\ ctrNameIndex' = s.ctrNameIndex
  /\ podIDIndex' = s.podIDIndex
  /\ ctrIDIndex' = s.ctrIDIndex
  /\ written' = s.written

(***************************************************************************)
(* registrar.Registrar and truncindex.TruncIndex (vendored libraries).     *)
(***************************************************************************)
RegistrarReserve(names, name, key) ==
  IF Has(names, name)
    THEN IF names[name] # key
           THEN [reg |-> names, err |-> "ErrNameReserved"]
           ELSE [reg |-> names, err |-> "nil"]
    ELSE [reg |-> Put(names, name, key), err |-> "nil"]

RegistrarRelease(names, name) == Del(names, name)

TruncIndexAdd(ids, id) ==
  IF id \in ids
    THEN [idx |-> ids, err |-> "ErrIDExists"]
    ELSE [idx |-> ids \cup {id}, err |-> "nil"]

(***************************************************************************)
(* Name reservation wrappers of the ContainerServer.                       *)
(***************************************************************************)
\* the wrapper with the registrar's error swallowed
ReserveContainerName_ErrorSwallowed(reg, id, name) ==
  LET r == RegistrarReserve(reg, name, id)
  IN [reg |-> r.reg, name |-> name, err |-> "nil"]

ReserveContainerName(reg, id, name) ==
  LET r == RegistrarReserve(reg, name, id)
  IN IF r.err # "nil"
       THEN [reg |-> r.reg, name |-> EmptyName, err |-> "ctrNameReserved"]
       ELSE [reg |-> r.reg, name |-> name, err |-> "nil"]

ReleaseContainerName(reg, name) == RegistrarRelease(reg, name)

\* the wrapper returning the requested name along with the error
ReservePodName_NameOnError(reg, id, name) ==
  LET r == RegistrarReserve(reg, name, id)
  IN IF r.err # "nil"
       THEN [reg |-> r.reg, name |-> name, err |-> "podNameReserved"]
       ELSE [reg |-> r.reg, name |-> name, err |-> "nil"]

ReservePodName(reg, id, name) ==
  LET r == RegistrarReserve(reg, name, id)
  IN IF r.err # "nil"
       THEN [reg |-> r.reg, name |-> EmptyName, err |-> "podNameReserved"]
       ELSE [reg |-> r.reg, name |-> name, err |-> "nil"]

\* the release forgotten
ReleasePodName_Kept(reg, name) == reg

ReleasePodName(reg, name) == RegistrarRelease(reg, name)

(***************************************************************************)
(* Platform hooks of the state store (container_server_linux.go): the MCS  *)
(* level of the sandbox's process label is reference counted.               *)
(***************************************************************************)
LevelCount(levels, l) == IF Has(levels, l) THEN levels[l] ELSE 0

addSandboxPlatform(levels, sb) ==
  IF sb.label = BadLabel
    THEN [levels |-> levels, err |-> "badLabel"]
    ELSE [levels |-> Put(levels, sb.label, LevelCount(levels, sb.label) + 1),
          err |-> "nil"]

removeSandboxPlatform(levels, sb) ==
  IF sb.label = BadLabel
    THEN [levels |-> levels, err |-> "badLabel"]
    ELSE IF Has(levels, sb.label)
           THEN IF levels[sb.label] - 1 = 0
                  THEN [levels |-> Del(levels, sb.label), err |-> "nil"]
                  ELSE [levels |-> Put(levels, sb.label, levels[sb.label] - 1),
                        err |-> "nil"]
           ELSE [levels |-> levels, err |-> "nil"]

(***************************************************************************)
(* Sandbox and container objects, and the sandbox's own container list.    *)
(***************************************************************************)
NewSandbox(name, label) ==
  [name |-> name, label |-> label, containers |-> {}, infra |-> NoCtr,
   created |-> FALSE]

NewContainer(name, sbID) == [name |-> name, sandbox |-> sbID]

SandboxAddContainer(sb, ctrID) == [sb EXCEPT !.containers = @ \cup {ctrID}]
SandboxRemoveContainer(sb, ctrID) == [sb EXCEPT !.containers = @ \ {ctrID}]
SetInfraContainer(sb, ctrID) ==
  IF sb.infra # NoCtr
    THEN [sb |-> sb, err |-> "infraAlreadySet"]
    ELSE [sb |-> [sb EXCEPT !.infra = ctrID], err |-> "nil"]

(***************************************************************************)
(* Operations of the state store.  Each takes the in-memory state s and    *)
(* returns the state after the call (and the error, where the Go method    *)
(* returns one).                                                           *)
(***************************************************************************)
\* the container put into the map but not into its sandbox's list
AddContainer_MapOnly(s, id, ctr) ==
  IF ~Has(s.sandboxes, ctr.sandbox)
    THEN s
    ELSE [s EXCEPT !.containers = Put(@, id, ctr)]

AddContainer(s, id, ctr) ==
  IF ~Has(s.sandboxes, ctr.sandbox)
    THEN s
    ELSE [s EXCEPT
            !.sandboxes = Put(@, ctr.sandbox,
                              SandboxAddContainer(@[ctr.sandbox], id)),
            !.containers = Put(@, id, ctr)]

AddInfraContainer(s, id, ctr) ==
  [s EXCEPT !.infraContainers = Put(@, id, ctr)]

GetContainer(s, id) == IF Has(s.containers, id) THEN {s.containers[id]} ELSE {}
HasContainer(s, id) == GetContainer(s, id) # {}
ListContainers(s) == DOMAIN s.containers

RemoveContainer(s, id, ctr) ==
  IF ~Has(s.sandboxes, ctr.sandbox)
    THEN s
    ELSE [s EXCEPT
            !.sandboxes = Put(@, ctr.sandbox,
                              SandboxRemoveContainer(@[ctr.sandbox], id)),
            !.containers = Del(@, id)]

RemoveInfraContainer(s, id) ==
  [s EXCEPT !.infraContainers = Del(@, id)]

AddSandbox(s, id, sb) ==
  LET s1 == [s EXCEPT !.sandboxes = Put(@, id, sb)]
      p == addSandboxPlatform(s1.processLevels, sb)
  IN [st |-> [s1 EXCEPT !.processLevels = p.levels], err |-> p.err]

GetSandbox(s, id) == IF Has(s.sandboxes, id) THEN {s.sandboxes[id]} ELSE {}
HasSandbox(s, id) == GetSandbox(s, id) # {}
ListSandboxes(s) == DOMAIN s.sandboxes
GetSandboxContainer(s, id) ==
  IF Has(s.sandboxes, id) THEN s.sandboxes[id].infra ELSE NoCtr

RemoveSandbox(s, id) ==
  IF ~Has(s.sandboxes, id)
    THEN [st |-> s, err |-> "nil"]
    ELSE LET p == removeSandboxPlatform(s.processLevels, s.sandboxes[id])
         IN IF p.err # "nil"
              THEN [st |-> s, err |-> p.err]
              ELSE [st |-> [s EXCEPT !.processLevels = p.levels,
                                     !.sandboxes = Del(@, id)],
                    err |-> "nil"]

\* ContainerStateFromDisk followed by ContainerStateToDisk: the state file
\* of the container is rewritten
ContainerStateToDisk(s, id) == [s EXCEPT !.written = @ \cup {id}]

(***************************************************************************)
(* Rehydration.  fail names the step that the environment makes fail in    *)
(* this call (an unreadable or malformed config.json, a storage or runtime *)
(* error); "none" lets every such step succeed.  The result carries the    *)
(* state after the deferred compensations have run.                        *)
(***************************************************************************)
LoadSandboxFails == {"none", "config", "spec", "dirs", "state", "label"}
LoadContainerFails == {"none", "config", "metadata", "state"}

\* manager, ok := m.Annotations[annotations.ContainerManager];
\* ok && manager != ContainerManagerCRIO
IsNonCrioContainer(marker) ==
  marker # NoMarker /\ marker # ContainerManagerCRIO

LoadSandbox(s, i, fail) ==
  LET id == PodId(i)
      r1 == ReservePodName(s.podNameIndex, id, PodName(i))
      name == r1.name
      s1 == [s EXCEPT !.podNameIndex = r1.reg]
      \* defer: c.ReleasePodName(name)
      d1(t) == [t EXCEPT !.podNameIndex = ReleasePodName(@, name)]
      sb == NewSandbox(name, PodLabel(i))
      a == AddSandbox(s1, id, sb)
      s2 == a.st
      \* defer: c.RemoveSandbox(sb.ID()), its error only logged
      d2(t) == RemoveSandbox(t, id).st
      r3 == ReserveContainerName(s2.ctrNameIndex, InfraId(i), InfraName(i))
      cname == r3.name
      s3 == [s2 EXCEPT !.ctrNameIndex = r3.reg]
      \* defer: c.ReleaseContainerName(cname)
      d3(t) == [t EXCEPT !.ctrNameIndex = ReleaseContainerName(@, cname)]
      undo(t) == d1(d2(d3(t)))
      s4 == ContainerStateToDisk(s3, InfraId(i))
      \* sb is the object the sandboxes map holds
      f == SetInfraContainer([s4.sandboxes[id] EXCEPT !.created = TRUE],
                             InfraId(i))
      s5 == [s4 EXCEPT !.sandboxes = Put(@, id, f.sb)]
      x1 == TruncIndexAdd(s5.ctrIDIndex, InfraId(i))
      s6 == [s5 EXCEPT !.ctrIDIndex = x1.idx]
      x2 == TruncIndexAdd(s6.podIDIndex, id)
      s7 == [s6 EXCEPT !.podIDIndex = x2.idx]
  IN CASE fail = "config" -> [st |-> s, err |-> "config"]
       [] r1.err # "nil" -> [st |-> s, err |-> r1.err]
       [] fail = "spec" -> [st |-> d1(s1), err |-> "spec"]
       [] a.err # "nil" -> [st |-> d1(s2), err |-> a.err]
       [] fail = "dirs" -> [st |-> d1(d2(s2)), err |-> "dirs"]
       [] r3.err # "nil" -> [st |-> d1(d2(s2)), err |-> r3.err]
       [] fail = "state" -> [st |-> undo(s3), err |-> "state"]
       [] fail = "label" -> [st |-> undo(s4), err |-> "label"]
       [] f.err # "nil" -> [st |-> undo(s4), err |-> f.err]
       [] x1.err # "nil" -> [st |-> undo(s5), err |-> "ctrIDIndex"]
       [] x2.err # "nil" -> [st |-> undo(s6), err |-> "podIDIndex"]
       [] OTHER -> [st |-> s7, err |-> "nil"]

LoadContainer(s, j, fail) ==
  LET id == CtrId(j)
      r1 == ReserveContainerName(s.ctrNameIndex, id, CtrName(j))
      name == r1.name
      s1 == [s EXCEPT !.ctrNameIndex = r1.reg]
      \* defer: c.ReleaseContainerName(name)
      d1(t) == [t EXCEPT !.ctrNameIndex = ReleaseContainerName(@, name)]
      ctr == NewContainer(name, CtrSandbox(j))
      s2 == ContainerStateToDisk(s1, id)
      s3 == AddContainer(s2, id, ctr)
      x == TruncIndexAdd(s3.ctrIDIndex, id)
      s4 == [s3 EXCEPT !.ctrIDIndex = x.idx]
  IN CASE fail = "config" -> [st |-> s, err |-> "config"]
       [] IsNonCrioContainer(managers[id]) ->
            [st |-> s, err |-> "ErrIsNonCrioContainer"]
       [] r1.err # "nil" -> [st |-> s, err |-> r1.err]
       [] fail = "metadata" -> [st |-> d1(s1), err |-> "metadata"]
       [] GetSandbox(s1, CtrSandbox(j)) = {} ->
            [st |-> d1(s1), err |-> "noSandbox"]
       [] fail = "state" -> [st |-> d1(s1), err |-> "state"]
       [] x.err # "nil" -> [st |-> d1(s3), err |-> "ctrIDIndex"]
       [] OTHER -> [st |-> s4, err |-> "nil"]

(***************************************************************************)
(* The calls, each a whole method of the ContainerServer.                  *)
(***************************************************************************)
Ret(op, id, name, err, out) ==
  [op |-> op, id |-> id, name |-> name, err |-> err, out |-> out]

IsLoad(r) == r.op \in {"LoadSandbox", "LoadContainer"}

\* a call returns r; the calls of the concurrent handlers are not running
Returns(r) ==
  /\ ret' = r
  /\ startup' = IF startup.clean /\ IsLoad(r) /\ r.err = "nil"
                  THEN [startup EXCEPT !.loaded = @ \cup {r.id}]
                  ELSE [clean |-> FALSE, loaded |-> {}]
  /\ UNCHANGED <<concVars, auxVars>>

\* the two request handlers of a concurrent CreateContainer, and their ids
Handlers == {1, 2}
\* the threads that add and remove sandboxes concurrently
Threads == {1, 2}
IdleNsCall == [pc |-> "idle", err |-> "nil", after |-> FALSE, did |-> {}]
\* the record pinNamespaces builds, initialized by the sandbox, and the
\* record getNamespace builds for a path it was given
PinnedNamespace ==
  [closed |-> FALSE, initialized |-> TRUE, nsType |-> "net",
   nsPath |-> "pinned"]
JoinedNamespace ==
  [closed |-> FALSE, initialized |-> FALSE, nsType |-> "", nsPath |-> "given"]
IdleWriter ==
  [pc |-> "idle", op |-> "none", id |-> NoCtr, err |-> "nil",
   snap |-> NoState, writeErr |-> FALSE, down |-> NoState]
IdleMover ==
  [pc |-> "idle", op |-> "none", pod |-> 0, label |-> BadLabel, err |-> "nil",
   cleaned |-> FALSE, deleted |-> FALSE]
HandlerCtrId(h) == <<"ctr", 0 - h>>

\* no call is in progress
NoCalls ==
  /\ startup = [clean |-> TRUE, loaded |-> {}]
  /\ loader = [pc |-> "idle", pod |-> 0, err |-> "nil"]
  /\ handlers = [h \in Handlers |-> [pc |-> "idle", name |-> EmptyName,
                                       res |-> "none"]]
  /\ configs = {}
  /\ seen = [pod |-> 0, has |-> FALSE, infra |-> NoCtr, written |-> FALSE,
             indexed |-> FALSE]
  /\ ret = Ret("New", NoCtr, EmptyName, "nil", EmptyName)
  /\ stateLock = 0
  /\ movers = [t \in Threads |-> IdleMover]
  /\ runtimeCalls = << >>
  /\ tmpFiles = [w \in Threads |-> NoFile]
  /\ nsFile = [mounted |-> TRUE, exists |-> TRUE]
  /\ nsLock = 0
  /\ nsCalls = [t \in Threads |-> IdleNsCall]
  /\ nsLog = [closes |-> 0, unmounts |-> 0, deletes |-> 0, removed |-> FALSE]
  /\ writers = [w \in Threads |-> IdleWriter]
  /\ sbNs = << >>
  /\ sbInfra = NoInfra
  /\ pinCall = NoPinCall
  /\ sbRemoved = {}
  /\ execSync = NoExec
  /\ daemon = NewDaemon
  /\ staging = EmptyMap
  /\ checkpointSteps = << >>
  /\ cliRun = NoRun

\* every container is running, and its object and its state.json say so
AllRunning ==
  /\ runtimeState = [id \in OciIds |-> Running]
  /\ ctrState = [id \in OciIds |-> Running]
  /\ stateFiles = [id \in OciIds |-> Running]

\* the maps, registrars and indices as New makes them, but for the
\* sandboxes and their levels
NoContainers ==
  /\ containers = EmptyMap
  /\ infraContainers = EmptyMap
  /\ podNameIndex = EmptyMap
  /\ ctrNameIndex = EmptyMap
  /\ podIDIndex = {}
  /\ ctrIDIndex = {}
  /\ written = {}

\* the server as New returns it
Fresh ==
  /\ NoCalls
  /\ AllRunning
  /\ NoContainers
  /\ sandboxes = EmptyMap
  /\ processLevels = EmptyMap

\* every directory on disk is one this daemon created
Init ==
  /\ Fresh
  /\ namespace = PinnedNamespace
  /\ managers = [d \in PodIds \cup CtrIds |-> ContainerManagerCRIO]

\* the directories on disk carry any marker
InitDisk ==
  /\ Fresh
  /\ namespace = PinnedNamespace
  /\ managers \in [PodIds \cup CtrIds -> Markers]

\* the model stops adding sandboxes of a level whose count is at the cap
BelowCap(l) == LevelCount(processLevels, l) < MaxRefs

LoadSandboxAct ==
  \E i \in Pods, fail \in LoadSandboxFails :
    LET r == LoadSandbox(Store, i, fail)
    IN /\ BelowCap(PodLabel(i))
       /\ SetStore(r.st)
       /\ Returns(Ret("LoadSandbox", PodId(i), PodName(i), r.err, EmptyName))

LoadContainerAct ==
  \E j \in Ctrs, fail \in LoadContainerFails :
    LET r == LoadContainer(Store, j, fail)
    IN /\ SetStore(r.st)
       /\ Returns(Ret("LoadContainer", CtrId(j), CtrName(j), r.err, EmptyName))

\* a request handler registers the sandbox it has built
AddSandboxAct ==
  \E i \in Pods, l \in Levels \cup {BadLabel} :
    LET r == AddSandbox(Store, PodId(i), NewSandbox(PodName(i), l))
    IN /\ BelowCap(l)
       /\ SetStore(r.st)
       /\ Returns(Ret("AddSandbox", PodId(i), PodName(i), r.err, EmptyName))

RemoveSandboxAct ==
  \E i \in Pods :
    LET r == RemoveSandbox(Store, PodId(i))
    IN /\ SetStore(r.st)
       /\ Returns(Ret("RemoveSandbox", PodId(i), PodName(i), r.err, EmptyName))

AddContainerAct ==
  \E j \in Ctrs :
    /\ SetStore(AddContainer(Store, CtrId(j),
                             NewContainer(CtrName(j), CtrSandbox(j))))
    /\ Returns(Ret("AddContainer", CtrId(j), CtrName(j), "nil", EmptyName))

RemoveContainerAct ==
  \E j \in Ctrs :
    /\ SetStore(RemoveContainer(Store, CtrId(j),
                                NewContainer(CtrName(j), CtrSandbox(j))))
    /\ Returns(Ret("RemoveContainer", CtrId(j), CtrName(j), "nil", EmptyName))

\* a request handler reserves a name for the id it has allocated, and
\* releases a name only while it is the holder
ReservePodNameAct ==
  \E name \in PodNames :
    LET r == ReservePodName(podNameIndex, NewPodId, name)
    IN /\ SetStore([Store EXCEPT !.podNameIndex = r.reg])
       /\ Returns(Ret("ReservePodName", NewPodId, name, r.err, r.name))

ReleasePodNameAct ==
  \E name \in PodNames :
    /\ Has(podNameIndex, name) => podNameIndex[name] = NewPodId
    /\ SetStore([Store EXCEPT !.podNameIndex = ReleasePodName(@, name)])
    /\ Returns(Ret("ReleasePodName", NewPodId, name, "nil", EmptyName))

ReserveContainerNameAct ==
  \E name \in CtrNames :
    LET r == ReserveContainerName(ctrNameIndex, NewCtrId, name)
    IN /\ SetStore([Store EXCEPT !.ctrNameIndex = r.reg])
       /\ Returns(Ret("ReserveContainerName", NewCtrId, name, r.err, r.name))

ReleaseContainerNameAct ==
  \E name \in CtrNames :
    /\ Has(ctrNameIndex, name) => ctrNameIndex[name] = NewCtrId
    /\ SetStore([Store EXCEPT !.ctrNameIndex = ReleaseContainerName(@, name)])
    /\ Returns(Ret("ReleaseContainerName", NewCtrId, name, "nil", EmptyName))

vars == <<storeVars, ret, startup, concVars, auxVars>>

Next ==
  \/ LoadSandboxAct
  \/ LoadContainerAct
  \/ ReservePodNameAct
  \/ ReleasePodNameAct
  \/ ReserveContainerNameAct
  \/ ReleaseContainerNameAct

\* rehydration, next to request handlers that reserve and release names
Spec == Init /\ [][Next]_vars

NextStore ==
  \/ AddSandboxAct
  \/ RemoveSandboxAct
  \/ AddContainerAct
  \/ RemoveContainerAct
  \/ LoadContainerAct

\* the state store under arbitrary sequences of its add and remove calls
SpecStore == Init /\ [][NextStore]_vars

(***************************************************************************)
(* The container calls of request handlers, over sandboxes that are stored *)
(* already: the containers on disk, those the creating handlers allocate,  *)
(* and one whose sandbox id may name no stored sandbox.                    *)
(***************************************************************************)
NewPodName == <<"podname", 0>>
NewCtrName == <<"ctrname", 0>>
HandlerCtrName(h) == <<"ctrname", 0 - h>>
AnyCtrs ==
  {[id |-> CtrId(j), ctr |-> NewContainer(CtrName(j), CtrSandbox(j))] :
     j \in Ctrs}
  \cup {[id |-> HandlerCtrId(h),
         ctr |-> NewContainer(HandlerCtrName(h), PodId(1))] : h \in Handlers}
  \cup {[id |-> NewCtrId, ctr |-> NewContainer(NewCtrName, NewPodId)]}

\* the store after AddSandbox has returned nil once for each sandbox of ids
SandboxesAdded(ids) ==
  [id \in ids |-> IF id = NewPodId
                     THEN NewSandbox(NewPodName, Lvl(1))
                     ELSE NewSandbox(PodName(PodOf(id)), PodLabel(PodOf(id)))]
LevelsAdded(ids) ==
  LET sbs == SandboxesAdded(ids)
      used == {sbs[id].label : id \in ids}
  IN [l \in used |-> Cardinality({id \in ids : sbs[id].label = l})]

InitCtrs ==
  /\ NoCalls
  /\ namespace = PinnedNamespace
  /\ AllRunning
  /\ NoContainers
  /\ managers = [d \in PodIds \cup CtrIds |-> ContainerManagerCRIO]
  /\ \E ids \in SUBSET (PodIds \cup {NewPodId}) :
       /\ sandboxes = SandboxesAdded(ids)
       /\ processLevels = LevelsAdded(ids)

AddContainerCall ==
  \E c \in AnyCtrs :
    /\ SetStore(AddContainer(Store, c.id, c.ctr))
    /\ Returns(Ret("AddContainer", c.id, c.ctr.name, "nil", EmptyName))

RemoveContainerCall ==
  \E c \in AnyCtrs :
    /\ SetStore(RemoveContainer(Store, c.id, c.ctr))
    /\ Returns(Ret("RemoveContainer", c.id, c.ctr.name, "nil", EmptyName))

NextCtrs ==
  \/ AddContainerCall
  \/ RemoveContainerCall

\* sequences of AddContainer and RemoveContainer calls
SpecCtrs == InitCtrs /\ [][NextCtrs]_vars

(***************************************************************************)
(* ListContainers with the filter functions of a list request.  The        *)
(* returned slice is a bag: container id -> the times it was appended.     *)
(***************************************************************************)
MaxFilters == 2   \* the most filter functions one list request passes
\* the filters of a list request: by container id, by pod
Filters ==
  {[by |-> "id", val |-> c.id] : c \in AnyCtrs}
  \cup {[by |-> "pod", val |-> p] : p \in PodIds \cup {NewPodId}}
FilterLists == UNION {[1..n -> Filters] : n \in 0..MaxFilters}
\* filter(container)
Accepts(f, id, ctr) == IF f.by = "id" THEN id = f.val ELSE ctr.sandbox = f.val

\* how often the loops append the container
TimesAppended(s, filters, id) ==
  Cardinality({i \in DOMAIN filters : Accepts(filters[i], id, s.containers[id])})

ListContainersFiltered(s, filters) ==
  IF Len(filters) = 0
    THEN [id \in ListContainers(s) |-> 1]
    ELSE [id \in {x \in ListContainers(s) : TimesAppended(s, filters, x) > 0} |->
            TimesAppended(s, filters, id)]

ListContainersCall ==
  \E filters \in FilterLists :
    Returns(Ret("ListContainers", NoCtr, filters, "nil",
                ListContainersFiltered(Store, filters)))
    /\ UNCHANGED storeVars

NextList ==
  \/ AddContainerCall
  \/ ListContainersCall

\* containers added and listed
SpecList == InitCtrs /\ [][NextList]_vars

(***************************************************************************)
(* The runtime (internal/oci) as the ContainerServer uses it.  ok tells    *)
(* whether the environment lets the call succeed.                          *)
(***************************************************************************)
\* the runtime stops the container's process and reaps it; a container
\* whose process is gone has nothing left to stop
RuntimeStopContainer(rt, id, ok, code) ==
  IF rt[id].status = "stopped"
    THEN [rt |-> rt, err |-> "nil"]
  ELSE IF ~ok
    THEN [rt |-> rt, err |-> "stop"]
  ELSE [rt |-> [rt EXCEPT ![id] = Stopped(code)], err |-> "nil"]

\* the runtime reports what it and the exit file tell of the container
RuntimeUpdateContainerStatus(rt, st, id, ok) ==
  IF ~ok
    THEN [st |-> st, err |-> "status"]
    ELSE [st |-> [st EXCEPT ![id] = rt[id]], err |-> "nil"]

\* returns nil once the status of the container object is seen stopped: at
\* once when it is stopped already, else after a refresh that may not come
\* in time
RuntimeWaitContainerStateStopped(rt, st, id, ok) ==
  IF st[id].status = "stopped"
    THEN [st |-> st, err |-> "nil"]
  ELSE IF ~ok \/ rt[id].status # "stopped"
    THEN [st |-> st, err |-> "wait"]
  ELSE [st |-> [st EXCEPT ![id] = rt[id]], err |-> "nil"]

\* a runtime call, its error, and the status the container object had
RuntimeCall(name, err, before) == [call |-> name, err |-> err, before |-> before]

\* the wait is started whatever the stop returned
StopContainerAndWait_WaitAnyway(rt, st, id, stopOk, code, waitOk) ==
  LET r1 == RuntimeStopContainer(rt, id, stopOk, code)
      r2 == RuntimeWaitContainerStateStopped(r1.rt, st, id, waitOk)
  IN [rt |-> r1.rt, st |-> r2.st,
      calls |-> <<RuntimeCall("StopContainer", r1.err, st[id].status),
                  RuntimeCall("WaitContainerStateStopped", r2.err,
                              st[id].status)>>,
      err |-> r2.err,
      msg |-> IF r2.err = "nil" THEN << >>
              ELSE <<"failed to get container 'stopped' status", OciName(id)>>]

\* a container that is stopped already is refused
StopContainerAndWait_RefusesStopped(rt, st, id, stopOk, code, waitOk) ==
  IF st[id].status = "stopped"
    THEN [rt |-> rt, st |-> st,
          calls |-> <<RuntimeCall("StopContainer", "stop", st[id].status)>>,
          err |-> "stop",
          msg |-> <<"failed to stop container", OciName(id)>>]
    ELSE LET r1 == RuntimeStopContainer(rt, id, stopOk, code)
             r2 == RuntimeWaitContainerStateStopped(r1.rt, st, id, waitOk)
             stop == RuntimeCall("StopContainer", r1.err, st[id].status)
             wait == RuntimeCall("WaitContainerStateStopped", r2.err,
                                 st[id].status)
         IN IF r1.err # "nil"
              THEN [rt |-> r1.rt, st |-> st, calls |-> <<stop>>,
                    err |-> r1.err,
                    msg |-> <<"failed to stop container", OciName(id)>>]
              ELSE [rt |-> r1.rt, st |-> r2.st, calls |-> <<stop, wait>>,
                    err |-> r2.err,
                    msg |-> IF r2.err = "nil" THEN << >>
                            ELSE <<"failed to get container 'stopped' status",
                                   OciName(id)>>]

StopContainerAndWait(rt, st, id, stopOk, code, waitOk) ==
  LET r1 == RuntimeStopContainer(rt, id, stopOk, code)
      r2 == RuntimeWaitContainerStateStopped(r1.rt, st, id, waitOk)
      stop == RuntimeCall("StopContainer", r1.err, st[id].status)
      wait == RuntimeCall("WaitContainerStateStopped", r2.err, st[id].status)
  IN IF r1.err # "nil"
       THEN [rt |-> r1.rt, st |-> st, calls |-> <<stop>>, err |-> r1.err,
             msg |-> <<"failed to stop container", OciName(id)>>]
       ELSE IF r2.err # "nil"
         THEN [rt |-> r1.rt, st |-> r2.st, calls |-> <<stop, wait>>,
               err |-> r2.err,
               msg |-> <<"failed to get container 'stopped' status",
                         OciName(id)>>]
         ELSE [rt |-> r1.rt, st |-> r2.st, calls |-> <<stop, wait>>,
               err |-> "nil", msg |-> << >>]

OciStep ==
  UNCHANGED <<storeVars, startup, concVars, diskVars, lockVars, fileVars,
              nsVars, moreVars>>

StopContainerAndWaitAct ==
  \E id \in OciIds, stopOk \in BOOLEAN, code \in ExitCodes, waitOk \in BOOLEAN :
    LET r == StopContainerAndWait(runtimeState, ctrState, id, stopOk, code,
                                  waitOk)
    IN /\ runtimeState' = r.rt
       /\ ctrState' = r.st
       /\ runtimeCalls' = r.calls
       /\ ret' = Ret("StopContainerAndWait", id, OciName(id), r.err, r.msg)
       /\ OciStep

\* the process of a running container exits by itself
ContainerExits ==
  \E id \in OciIds, code \in ExitCodes :
    /\ runtimeState[id].status = "running"
    /\ runtimeState' = [runtimeState EXCEPT ![id] = Stopped(code)]
    /\ UNCHANGED <<ctrState, runtimeCalls, ret>>
    /\ OciStep

NextStop ==
  \/ StopContainerAndWaitAct
  \/ ContainerExits

\* containers stopped by request handlers, or exiting by themselves
SpecStop == Init /\ [][NextStop]_vars

(***************************************************************************)
(* ExecSync: a transient process inside a container, run under its own     *)
(* deadline.  The process lives in the container, so it is gone when the   *)
(* container's process is.                                                 *)
(***************************************************************************)
\* the handler refuses a container whose object is not running; the runtime
\* cannot start a process in a container whose process is gone
ExecSyncStart(rt, st, id, timeout) ==
  IF st[id].status # "running"
    THEN [exec |-> NoExec, err |-> "state"]
  ELSE IF rt[id].status # "running"
    THEN [exec |-> NoExec, err |-> "exec"]
  ELSE [exec |-> [id |-> id, proc |-> "running", timeout |-> timeout],
        err |-> "nil"]

\* the exec process ends by itself: its exit code is the response, whatever
\* the code
ExecSyncExit(exec, code) ==
  [exec |-> [exec EXCEPT !.proc = "exited"], err |-> "nil",
   resp |-> <<"exit_code", code>>]

ExecSyncKill_KillsContainer(rt, exec) ==
  [rt |-> [rt EXCEPT ![exec.id] = Stopped(1)],
   exec |-> [exec EXCEPT !.proc = "killed"], err |-> "Timeout",
   resp |-> <<"command timed out">>]

\* the deadline passes: the exec process is killed, the container's is not
ExecSyncKill(rt, exec) ==
  [rt |-> rt, exec |-> [exec EXCEPT !.proc = "killed"], err |-> "Timeout",
   resp |-> <<"command timed out">>]

ExecStep ==
  UNCHANGED <<storeVars, startup, concVars, diskVars, lockVars, fileVars,
              nsVars, sbVars, cpVars, lateVars>>

\* the workload containers, in which requests run commands
ExecIds == CtrIds \cup {NewCtrId}

\* a request arrives; it returns at once when no process could be started
ExecSyncCall ==
  /\ execSync.proc # "running"
  /\ \E id \in ExecIds, timeout \in Timeouts :
       LET r == ExecSyncStart(runtimeState, ctrState, id, timeout)
       IN /\ execSync' = r.exec
          /\ ret' = IF r.err = "nil" THEN ret
                    ELSE Ret("ExecSync", id, OciName(id), r.err, EmptyName)
          /\ UNCHANGED ociVars
          /\ ExecStep

\* the command ends, or ends with the container, before the deadline
ExecSyncReturns ==
  /\ execSync.proc = "running"
  /\ \E code \in ExitCodes :
       LET r == ExecSyncExit(execSync, code)
       IN /\ execSync' = r.exec
          /\ ret' = Ret("ExecSync", execSync.id, OciName(execSync.id), r.err,
                        r.resp)
          /\ UNCHANGED ociVars
          /\ ExecStep

\* the command outlives the deadline of a request that set one
ExecSyncTimesOut ==
  /\ execSync.proc = "running"
  /\ execSync.timeout > 0
  /\ runtimeState[execSync.id].status = "running"
  /\ LET r == ExecSyncKill(runtimeState, execSync)
     IN /\ execSync' = r.exec
        /\ runtimeState' = r.rt
        /\ ret' = Ret("ExecSync", execSync.id, OciName(execSync.id), r.err,
                      r.resp)
        /\ UNCHANGED <<ctrState, runtimeCalls>>
        /\ ExecStep

\* a workload container is stopped on request
StopExecContainer ==
  \E id \in ExecIds, stopOk \in BOOLEAN, code \in ExitCodes,
     waitOk \in BOOLEAN :
    LET r == StopContainerAndWait(runtimeState, ctrState, id, stopOk, code,
                                  waitOk)
    IN /\ runtimeState' = r.rt
       /\ ctrState' = r.st
       /\ runtimeCalls' = r.calls
       /\ ret' = Ret("StopContainerAndWait", id, OciName(id), r.err, r.msg)
       /\ OciStep

\* the process of a running workload container exits by itself
ExecContainerExits ==
  \E id \in ExecIds, code \in ExitCodes :
    /\ runtimeState[id].status = "running"
    /\ runtimeState' = [runtimeState EXCEPT ![id] = Stopped(code)]
    /\ UNCHANGED <<ctrState, runtimeCalls, ret>>
    /\ OciStep

NextExec ==
  \/ ExecSyncCall
  \/ ExecSyncReturns
  \/ ExecSyncTimesOut
  \/ StopExecContainer
  \/ ExecContainerExits

\* ExecSync requests among stops and exits of the workload containers
SpecExec == Init /\ [][NextExec]_vars

(***************************************************************************)
(* Checkpoint and restore: the crio-cr commands, the experimental service  *)
(* that converts their requests, and the server's Checkpoint and Restore.  *)
(***************************************************************************)
\* --compress as the command reads it
Compression(compress) ==
  CASE compress = "none" -> "Uncompressed"
    [] compress = "gzip" -> "Gzip"
    [] compress = "zstd" -> "Zstd"
    [] OTHER -> "unsupported"

\* the flags a checkpoint command is given: --compress is left at its
\* default, zstd, or names bzip2, an algorithm the command refuses
CheckpointFlags ==
  [export : {NoArchive, CpTar}, keep : BOOLEAN, leaveRunning : BOOLEAN,
   tcpEstablished : {FALSE}, compress : {"zstd"}]
  \cup [export : {CpTar}, keep : {FALSE}, leaveRunning : {FALSE},
        tcpEstablished : {FALSE}, compress : {"bzip2"}]

\* the request crio-cr checkpoint sends for one of its arguments
CheckpointCommandRequest(flags, id) ==
  [Id |-> id,
   Options |-> [CommonOptions |-> [Archive |-> flags.export,
                                   Keep |-> flags.keep,
                                   TcpEstablished |-> flags.tcpEstablished,
                                   Compression |-> Compression(flags.compress)],
                LeaveRunning |-> flags.leaveRunning]]

ServiceCheckpointRequest_StopsAnyway(req) ==
  [ID |-> req.Id,
   Options |-> [LeaveRunning |-> FALSE,
                CommonOptions |->
                  [Keep |-> req.Options.CommonOptions.Keep,
                   TCPEstablished |-> req.Options.CommonOptions.TcpEstablished,
                   Archive |-> req.Options.CommonOptions.Archive,
                   Compression |-> req.Options.CommonOptions.Compression]]]

\* the request service.CheckpointContainer hands to the server
ServiceCheckpointRequest(req) ==
  [ID |-> req.Id,
   Options |-> [LeaveRunning |-> req.Options.LeaveRunning,
                CommonOptions |->
                  [Keep |-> req.Options.CommonOptions.Keep,
                   TCPEstablished |-> req.Options.CommonOptions.TcpEstablished,
                   Archive |-> req.Options.CommonOptions.Archive,
                   Compression |-> req.Options.CommonOptions.Compression]]]

\* what the environment lets a Checkpoint do: all of it, or all up to one
\* step that fails; code is the exit code of the container when it is stopped
CheckpointEnv(fails, code) ==
  [snapshotOk |-> fails # "snapshot", exportOk |-> fails # "export",
   stopOk |-> fails # "stop", waitOk |-> fails # "wait", code |-> code]

\* the commands with what the environment lets them do, a step failing only
\* in a command that takes it, the exit code varying only when the
\* container is stopped
CheckpointCases ==
  {c \in [flags : CheckpointFlags,
          fails : {"none", "snapshot", "export", "stop", "wait"},
          code : ExitCodes] :
     /\ c.fails = "export" => c.flags.export # NoArchive
     /\ c.fails \in {"stop", "wait"} => ~c.flags.leaveRunning
     /\ c.flags.compress = "bzip2" => c.fails = "none" /\ c.code = 0
     /\ (c.flags.leaveRunning \/ c.fails \in {"snapshot", "export", "stop"})
          => c.code = 0}

\* the server's Checkpoint of a running container: snapshot into the staging
\* directory with the metadata of the original sandbox, export of the
\* archive when one is asked for, stop unless the container is to be left
\* running, removal of the staging directory after packing unless it is to
\* be kept.  steps lists the steps begun, the last of them failing when the
\* call returns an error
ServerCheckpointContainer(s, rt, st, stg, r, env) ==
  LET id == r.ID
      common == r.Options.CommonOptions
      Failed(steps, stg2, err) ==
        [rt |-> rt, st |-> st, staging |-> stg2, calls |-> << >>,
         steps |-> steps, err |-> err]
  IN IF ~HasContainer(s, id)
       THEN Failed(<< >>, stg, "NotFound")
     ELSE IF st[id].status # "running"
       THEN Failed(<< >>, stg, "UnsupportedState")
     ELSE IF ~env.snapshotOk \/ rt[id].status # "running"
       THEN Failed(<<"snapshot">>, stg, "RuntimeError")
     ELSE
       LET stg1 == Put(stg, id, [sandbox |-> s.containers[id].sandbox])
           packed == common.Archive # NoArchive
           steps1 == <<"snapshot", "metadata">>
           steps2 == IF packed THEN Append(steps1, "export") ELSE steps1
       IN IF packed /\ ~env.exportOk
            THEN Failed(steps2, stg1, "IOError")
          ELSE
            LET stop == IF r.Options.LeaveRunning
                          THEN [rt |-> rt, st |-> st, calls |-> << >>,
                                err |-> "nil"]
                          ELSE StopContainerAndWait(rt, st, id, env.stopOk,
                                                    env.code, env.waitOk)
                steps3 == IF r.Options.LeaveRunning THEN steps2
                          ELSE Append(steps2, "stop")
            IN IF stop.err # "nil"
                 THEN [rt |-> stop.rt, st |-> stop.st, staging |-> stg1,
                       calls |-> stop.calls, steps |-> steps3,
                       err |-> "RuntimeError"]
               ELSE IF packed /\ ~common.Keep
                 THEN [rt |-> stop.rt, st |-> stop.st,
                       staging |-> Del(stg1, id), calls |-> stop.calls,
                       steps |-> Append(steps3, "cleanup"), err |-> "nil"]
               ELSE [rt |-> stop.rt, st |-> stop.st, staging |-> stg1,
                     calls |-> stop.calls, steps |-> steps3, err |-> "nil"]

\* the flags a restore command is given with a container id: --pod or not,
\* with the id of a sandbox or with an id no sandbox has
RestoreFlags ==
  [import : {NoArchive}, keep : {FALSE},
   pod : {NoPod, NewPodId} \cup PodIds, tcpEstablished : {FALSE}]

\* the request crio-cr restore sends for one of its arguments
RestoreCommandRequest(flags, id) ==
  [Id |-> id,
   Options |-> [Name |-> EmptyName,
                PodSandboxId |-> flags.pod,
                Labels |-> EmptyMap,
                Annotations |-> EmptyMap,
                CommonOptions |-> [Archive |-> flags.import,
                                   Keep |-> flags.keep,
                                   TcpEstablished |-> flags.tcpEstablished,
                                   Compression |-> "Uncompressed"]]]

\* the request service.RestoreContainer hands to the server, with the
\* labels dropped
ServiceRestoreRequest_DropsLabels(req) ==
  [ID |-> req.Id,
   Options |-> [Name |-> req.Options.Name,
                PodSandboxID |-> req.Options.PodSandboxId,
                Labels |-> EmptyMap,
                Annotations |-> req.Options.Annotations,
                CommonOptions |->
                  [Keep |-> req.Options.CommonOptions.Keep,
                   TCPEstablished |-> req.Options.CommonOptions.TcpEstablished,
                   Archive |-> req.Options.CommonOptions.Archive,
                   Compression |-> req.Options.CommonOptions.Compression]]]

\* the request service.RestoreContainer hands to the server; the command
\* leaves name, labels, annotations and compression unset
ServiceRestoreRequest(req) ==
  [ID |-> req.Id,
   Options |-> [Name |-> req.Options.Name,
                PodSandboxID |-> req.Options.PodSandboxId,
                Labels |-> req.Options.Labels,
                Annotations |-> req.Options.Annotations,
                CommonOptions |->
                  [Keep |-> req.Options.CommonOptions.Keep,
                   TCPEstablished |-> req.Options.CommonOptions.TcpEstablished,
                   Archive |-> req.Options.CommonOptions.Archive,
                   Compression |-> req.Options.CommonOptions.Compression]]]

NoResponse == << >>

\* the server's Restore from the staging directory of a container id: the
\* target sandbox is the one given, else the original one of the metadata;
\* a new name and id, the runtime's restore, the registration
ServerRestoreContainer(s, rt, st, stg, r, restoreOk) ==
  LET Failed(err) == [s |-> s, rt |-> rt, st |-> st, resp |-> NoResponse,
                      err |-> err]
  IN IF ~Has(stg, r.ID)
       THEN Failed("NoCheckpoint")
     ELSE
       LET target == IF r.Options.PodSandboxID = NoPod
                       THEN stg[r.ID].sandbox
                       ELSE r.Options.PodSandboxID
           name == ReserveContainerName(s.ctrNameIndex, NewCtrId, NewCtrName)
           index == TruncIndexAdd(s.ctrIDIndex, NewCtrId)
       IN IF ~HasSandbox(s, target)
            THEN Failed("SandboxNotFound")
          ELSE IF name.err # "nil"
            THEN Failed(name.err)
          ELSE IF ~restoreOk
            THEN Failed("RuntimeError")
          ELSE
            [s |-> AddContainer([s EXCEPT !.ctrNameIndex = name.reg,
                                          !.ctrIDIndex = index.idx],
                                NewCtrId, NewContainer(NewCtrName, target)),
             rt |-> [rt EXCEPT ![NewCtrId] = Running],
             st |-> [st EXCEPT ![NewCtrId] = Running],
             resp |-> [ID |-> NewCtrId, Pod |-> target],
             err |-> "nil"]

\* a call that returns in a step of checkpoint and restore
CpReturns(r) ==
  /\ ret' = r
  /\ startup' = [clean |-> FALSE, loaded |-> {}]
  /\ UNCHANGED <<concVars, diskVars, lockVars, fileVars, nsVars, sbVars,
                 execVars, lateVars>>

\* crio-cr checkpoint with one argument
CheckpointCmd ==
  \E case \in CheckpointCases, id \in CtrIds :
    LET req == CheckpointCommandRequest(case.flags, id)
        r == ServiceCheckpointRequest(req)
        c == ServerCheckpointContainer(Store, runtimeState, ctrState, staging,
                                       r,
                                       CheckpointEnv(case.fails, case.code))
    IN IF req.Options.CommonOptions.Compression = "unsupported"
         THEN /\ CpReturns(Ret("CheckpointContainer", id, OciName(id),
                               "compress", EmptyName))
              /\ UNCHANGED <<storeVars, ociVars, cpVars>>
         ELSE /\ runtimeState' = c.rt
              /\ ctrState' = c.st
              /\ runtimeCalls' = c.calls
              /\ staging' = c.staging
              /\ checkpointSteps' = c.steps
              /\ CpReturns(Ret("CheckpointContainer", id, OciName(id), c.err,
                               req))
              /\ UNCHANGED storeVars

\* crio-cr restore with one argument and no archive, while the new id is
\* free
RestoreCmd ==
  /\ ~HasContainer(Store, NewCtrId)
  /\ \E flags \in RestoreFlags, id \in CtrIds, restoreOk \in BOOLEAN :
       LET r == ServiceRestoreRequest(RestoreCommandRequest(flags, id))
           c == ServerRestoreContainer(Store, runtimeState, ctrState, staging,
                                       r, restoreOk)
       IN /\ SetStore(c.s)
          /\ runtimeState' = c.rt
          /\ ctrState' = c.st
          /\ CpReturns(Ret("RestoreContainer", id, OciName(id), c.err,
                           [flags |-> flags, resp |-> c.resp]))
          /\ UNCHANGED <<runtimeCalls, cpVars>>

\* the sandboxes are in the store, the containers are running but for the
\* one a restore is to create
InitCheckpoint ==
  /\ NoCalls
  /\ namespace = PinnedNamespace
  /\ NoContainers
  /\ managers = [d \in PodIds \cup CtrIds |-> ContainerManagerCRIO]
  /\ sandboxes = SandboxesAdded(PodIds)
  /\ processLevels = LevelsAdded(PodIds)
  /\ runtimeState = [id \in OciIds |-> IF id = NewCtrId THEN NoState
                                       ELSE Running]
  /\ ctrState = runtimeState
  /\ stateFiles = runtimeState

NextCheckpoint ==
  \/ AddContainerAct
  \/ CheckpointCmd
  \/ RestoreCmd

\* containers registered, checkpointed and restored
SpecCheckpoint == InitCheckpoint /\ [][NextCheckpoint]_vars


(***************************************************************************)
(* The experimental service's handlers over the requests of any client.    *)
(* A pointer of a request is a sequence: empty when nil, else of the one   *)
(* message it points to.                                                    *)
(***************************************************************************)
Optional(S) == {<< >>} \cup {<<x>> : x \in S}

SomeLabels == (<<"label", 1>> :> <<"label", 2>>)

CommonOptionsSent ==
  [Archive : {NoArchive, CpTar}, Keep : BOOLEAN, TcpEstablished : BOOLEAN,
   Compression : {"Zstd"}]

\* the ids a client names: those of the containers and one of no container
ServiceIds == CtrIds \cup {NewCtrId}

CheckpointContainerRequests ==
  [Id : ServiceIds,
   Options : Optional([CommonOptions : Optional(CommonOptionsSent),
                       LeaveRunning : BOOLEAN])]

RestoreContainerRequests ==
  [Id : ServiceIds,
   Options : Optional([Name : {EmptyName, NewCtrName},
                       PodSandboxId : {NoPod, NewPodId},
                       Labels : {EmptyMap, SomeLabels},
                       Annotations : {EmptyMap},
                       CommonOptions : Optional(CommonOptionsSent)])]

\* the handlers read req.Options and req.Options.CommonOptions through the
\* fields: a nil pointer among them is dereferenced
NilDereference(req) ==
  \/ req.Options = << >>
  \/ req.Options[1].CommonOptions = << >>

\* the request with its pointers followed
Pointee(req) ==
  [req EXCEPT !.Options = [@[1] EXCEPT !.CommonOptions = @[1]]]

\* what a handler of the service returns: the request it was given, the
\* request it sent to the server if any, the response or nil
Handled(req, sent, res) == [req |-> req, sent |-> sent, res |-> res]

\* service.CheckpointContainer
ServiceCheckpointContainer ==
  \E req \in CheckpointContainerRequests, fails \in {"none", "snapshot"} :
    IF NilDereference(req)
      THEN /\ CpReturns(Ret("service.CheckpointContainer", req.Id,
                            OciName(req.Id), "panic",
                            Handled(req, << >>, << >>)))
           /\ UNCHANGED <<storeVars, ociVars, cpVars>>
      ELSE
        LET r == ServiceCheckpointRequest(Pointee(req))
            c == ServerCheckpointContainer(Store, runtimeState, ctrState,
                                           staging, r, CheckpointEnv(fails, 0))
        IN /\ runtimeState' = c.rt
           /\ ctrState' = c.st
           /\ runtimeCalls' = c.calls
           /\ staging' = c.staging
           /\ checkpointSteps' = c.steps
           /\ CpReturns(Ret("service.CheckpointContainer", req.Id,
                            OciName(req.Id), c.err,
                            Handled(req, <<r>>,
                                    IF c.err # "nil" THEN << >>
                                    ELSE <<"CheckpointContainerResponse">>)))
           /\ UNCHANGED storeVars

\* service.RestoreContainer, while the new id is free
ServiceRestoreContainer ==
  /\ ~HasContainer(Store, NewCtrId)
  /\ \E req \in RestoreContainerRequests, restoreOk \in BOOLEAN :
       IF NilDereference(req)
         THEN /\ CpReturns(Ret("service.RestoreContainer", req.Id,
                               OciName(req.Id), "panic",
                               Handled(req, << >>, << >>)))
              /\ UNCHANGED <<storeVars, ociVars, cpVars>>
         ELSE
           LET r == ServiceRestoreRequest(Pointee(req))
               c == ServerRestoreContainer(Store, runtimeState, ctrState,
                                           staging, r, restoreOk)
           IN /\ SetStore(c.s)
              /\ runtimeState' = c.rt
              /\ ctrState' = c.st
              /\ CpReturns(Ret("service.RestoreContainer", req.Id,
                               OciName(req.Id), c.err,
                               Handled(req, <<r>>,
                                       IF c.err # "nil" THEN << >>
                                       ELSE <<c.resp>>)))
              /\ UNCHANGED <<runtimeCalls, cpVars>>

NextService ==
  \/ ServiceCheckpointContainer
  \/ ServiceRestoreContainer

\* requests of any client handled one after the other
SpecService == InitCheckpoint /\ [][NextService]_vars

(***************************************************************************)
(* The crio-cr commands over their arguments.  oks tells, for each         *)
(* argument, whether the server answers its request without error.         *)
(***************************************************************************)
\* container and pod ids a command can be given
CliIds == CtrIds \cup PodIds \cup {NewCtrId}
CliArgs == UNION {[1..n -> CliIds] : n \in 0..MaxArgs}
Answers(args) == [1..Len(args) -> BOOLEAN]

\* a line of the output stream: the ids it tells of
Line(kind, ids) == [kind |-> kind, ids |-> ids]
Run(cmd, args, oks, sent, out, exit) ==
  [cmd |-> cmd, args |-> args, oks |-> oks, sent |-> sent, out |-> out,
   exit |-> exit]

\* the loop of the checkpoint command from its i-th argument on: the
\* request, the return on its error, the line with the id
RECURSIVE CheckpointLoop(_, _, _, _, _)
CheckpointLoop(args, oks, i, sent, out) ==
  IF i > Len(args)
    THEN Run("checkpoint", args, oks, sent, out, 0)
  ELSE IF ~oks[i]
    THEN Run("checkpoint", args, oks, Append(sent, args[i]), out, 1)
  ELSE CheckpointLoop(args, oks, i + 1, Append(sent, args[i]),
                      Append(out, Line("id", <<args[i]>>)))

\* crio-cr checkpoint: help without arguments
checkpointCommand(args, oks) ==
  IF Len(args) = 0
    THEN Run("checkpoint", args, oks, << >>, <<Line("help", << >>)>>, 0)
    ELSE CheckpointLoop(args, oks, 1, << >>, << >>)

\* the loop of the restore command from its i-th id on: the request, the
\* return on its error, the response appended to rs; the responses are
\* printed as one JSON document after the loop
RECURSIVE RestoreLoop(_, _, _, _, _)
RestoreLoop(args, oks, i, sent, rs) ==
  IF i > Len(args)
    THEN Run("restore", args, oks, sent, <<Line("json", rs)>>, 0)
  ELSE IF ~oks[i]
    THEN Run("restore", args, oks, Append(sent, args[i]), << >>, 1)
  ELSE RestoreLoop(args, oks, i + 1, Append(sent, args[i]),
                   Append(rs, args[i]))

\* crio-cr restore with ids and without --import: help without arguments
restoreCommand(args, oks) ==
  IF Len(args) = 0
    THEN Run("restore", args, oks, << >>, <<Line("help", << >>)>>, 0)
    ELSE RestoreLoop(args, oks, 1, << >>, << >>)

CliStep ==
  UNCHANGED <<storeVars, ret, startup, concVars, diskVars, lockVars, ociVars,
              fileVars, nsVars, sbVars, execVars, cpVars, daemonVars>>

CheckpointCommandAct ==
  \E args \in CliArgs :
    \E oks \in Answers(args) :
      /\ cliRun' = checkpointCommand(args, oks)
      /\ CliStep

RestoreCommandAct ==
  \E args \in CliArgs :
    \E oks \in Answers(args) :
      /\ cliRun' = restoreCommand(args, oks)
      /\ CliStep

NextCli ==
  \/ CheckpointCommandAct
  \/ RestoreCommandAct

\* crio-cr commands run one after the other
SpecCli == Init /\ [][NextCli]_vars

(***************************************************************************)
(* The daemon: the goroutine of catchShutdown, the main action from the    *)
(* hook monitors on, and the servers they stop and wait for.  A call is a  *)
(* pair of its name and the version of the service it is made on.          *)
(***************************************************************************)
NoVersion == ""

\* the calls of the signal handler after SIGINT or SIGTERM, in their order
HandlerSequence ==
  << <<"graceful", NoVersion>>, <<"GracefulStop", NoVersion>>,
     <<"HttpShutdown", NoVersion>>,
     <<"StopStreamServer", "v1">>, <<"StopMonitors", "v1">>,
     <<"StopStreamServer", "v1alpha2">>, <<"StopMonitors", "v1alpha2">>,
     <<"cancel", NoVersion>>,
     <<"Shutdown", "v1">>, <<"Shutdown", "v1alpha2">> >>

\* the handler has returned
HandlerDone == Len(HandlerSequence) + 1

\* the steps of the main action from its select on
MainSequence ==
  << <<"select", NoVersion>>,
     <<"Shutdown", "v1">>, <<"Shutdown", "v1alpha2">>, <<"cancel", NoVersion>>,
     <<"<-streamServerCloseCh", "v1">>, <<"<-serverMonitorsCh", "v1">>,
     <<"<-streamServerCloseCh", "v1alpha2">>,
     <<"<-serverMonitorsCh", "v1alpha2">>,
     <<"<-hookSync", "v1">>, <<"<-hookSync", "v1alpha2">>,
     <<"<-serverCloseCh", NoVersion>> >>

\* the main action has returned
MainDone == Len(MainSequence) + 1

\* the five events the select of the main action waits for
SelectReady(d) ==
  \/ \E v \in Versions : d.stream[v] = "closed"
  \/ \E v \in Versions : d.monitors[v]
  \/ d.mux # "serving"

\* whether the step can be taken: a receive waits for its channel
Ready(d, step) ==
  CASE step[1] = "select" -> SelectReady(d)
    [] step[1] = "<-streamServerCloseCh" -> d.stream[step[2]] = "closed"
    [] step[1] = "<-serverMonitorsCh" -> d.monitors[step[2]]
    [] step[1] = "<-hookSync" -> d.hookSync[step[2]] > 0
    [] step[1] = "<-serverCloseCh" -> d.mux # "serving"
    [] OTHER -> TRUE

\* the daemon after the step.  GracefulStop and the HTTP server's Shutdown
\* close the listener they serve on; StopStreamServer makes the stream
\* server return, StopMonitors closes the monitors' channel; Shutdown is the
\* storage-level shutdown of ContainerServer.Shutdown
Call(d, step) ==
  CASE step[1] = "graceful" -> [d EXCEPT !.graceful = TRUE]
    [] step[1] = "GracefulStop" ->
         [d EXCEPT !.grpc = "stopped", !.listener = "closed"]
    [] step[1] = "HttpShutdown" ->
         [d EXCEPT !.http = "stopped", !.listener = "closed"]
    [] step[1] = "StopStreamServer" ->
         [d EXCEPT !.stream[step[2]] = IF @ = "serving" THEN "stopping" ELSE @]
    [] step[1] = "StopMonitors" -> [d EXCEPT !.monitors[step[2]] = TRUE]
    [] step[1] = "cancel" -> [d EXCEPT !.cancelled = TRUE]
    [] step[1] = "Shutdown" -> [d EXCEPT !.shutdowns[step[2]] = @ + 1]
    [] step[1] = "<-hookSync" -> [d EXCEPT !.hookSync[step[2]] = @ - 1]
    [] OTHER -> d

\* the process runs from the select of the main action to its return
Serving(d) == d.main \in DOMAIN MainSequence

DaemonStep ==
  UNCHANGED <<storeVars, ret, startup, concVars, diskVars, lockVars, ociVars,
              fileVars, nsVars, sbVars, execVars, cpVars, cliVars>>

\* the main action up to its select: without hooks each sync channel gets a
\* value at once, with hooks each monitor is started and its first value is
\* read; then the handler is installed and the servers serve
StartDaemon ==
  /\ daemon.main = 0
  /\ \E hooks \in BOOLEAN :
       daemon' = [daemon EXCEPT
                    !.main = 1, !.hooks = hooks,
                    !.hookSync = [v \in Versions |-> IF hooks THEN 0 ELSE 1]]
  /\ DaemonStep

\* a signal is delivered to the channel of the handler
SignalAct ==
  /\ Serving(daemon)
  /\ daemon.delivered < MaxSignals
  /\ \E s \in Signals :
       daemon' = [daemon EXCEPT !.sig = Append(@, s), !.delivered = @ + 1]
  /\ DaemonStep

\* one turn of the handler's loop, with no default case: a signal that has
\* no case of its own begins the sequence
HandleSignal_AnyOtherStops(d) ==
  LET s == Head(d.sig)
      rest == [d EXCEPT !.sig = Tail(@)]
  IN CASE s = "SIGUSR1" -> [rest EXCEPT !.dumps = @ + 1]
       [] s = "SIGUSR2" -> [rest EXCEPT !.gcs = @ + 1]
       [] s = "SIGPIPE" -> rest
       [] OTHER -> [rest EXCEPT !.handler = 1]

\* one turn of the handler's loop: the signal is taken from the channel;
\* SIGUSR1 dumps the stacks, SIGUSR2 collects garbage, SIGINT and SIGTERM
\* begin the sequence, any other signal is skipped
HandleSignal(d) ==
  LET s == Head(d.sig)
      rest == [d EXCEPT !.sig = Tail(@)]
  IN CASE s = "SIGUSR1" -> [rest EXCEPT !.dumps = @ + 1]
       [] s = "SIGUSR2" -> [rest EXCEPT !.gcs = @ + 1]
       [] s = "SIGPIPE" -> rest
       [] s \in ShutdownSignals -> [rest EXCEPT !.handler = 1]
       [] OTHER -> rest

HandleSignalAct ==
  /\ Serving(daemon)
  /\ daemon.handler = 0
  /\ daemon.sig # << >>
  /\ daemon' = HandleSignal(daemon)
  /\ DaemonStep

\* the next call of the handler's sequence, the handler returning after
\* the last
HandlerStep ==
  /\ Serving(daemon)
  /\ daemon.handler \in DOMAIN HandlerSequence
  /\ daemon' = [Call(daemon, HandlerSequence[daemon.handler])
                  EXCEPT !.handler = @ + 1]
  /\ DaemonStep

\* the next step of the main action
MainStep ==
  /\ Serving(daemon)
  /\ Ready(daemon, MainSequence[daemon.main])
  /\ daemon' = [Call(daemon, MainSequence[daemon.main]) EXCEPT !.main = @ + 1]
  /\ DaemonStep

\* a stream server that was stopped returns, and its channel is closed
StreamServerReturns ==
  /\ Serving(daemon)
  /\ \E v \in Versions :
       /\ daemon.stream[v] = "stopping"
       /\ daemon' = [daemon EXCEPT !.stream[v] = "closed"]
  /\ DaemonStep

\* a stream server fails by itself
StreamServerFails ==
  /\ Serving(daemon)
  /\ \E v \in Versions :
       /\ daemon.stream[v] = "serving"
       /\ daemon' = [daemon EXCEPT !.stream[v] = "closed", !.failed = TRUE]
  /\ DaemonStep

\* the exit-file watcher ends with the root context
ExitMonitorStops ==
  /\ Serving(daemon)
  /\ daemon.cancelled
  /\ \E v \in Versions :
       /\ ~daemon.monitors[v]
       /\ daemon' = [daemon EXCEPT !.monitors[v] = TRUE]
  /\ DaemonStep

\* a hook monitor ends with the root context and sends its error
HookMonitorExits ==
  /\ Serving(daemon)
  /\ daemon.hooks
  /\ daemon.cancelled
  /\ \E v \in Versions :
       /\ ~daemon.hookDone[v]
       /\ daemon' = [daemon EXCEPT !.hookDone[v] = TRUE, !.hookSync[v] = @ + 1]
  /\ DaemonStep

\* the serve loop of the multiplexer returns over the closed listener; the
\* error is not logged as a failure when the flag is set
MuxServeReturns ==
  /\ Serving(daemon)
  /\ daemon.mux = "serving"
  /\ daemon.listener = "closed"
  /\ daemon' = [daemon EXCEPT !.mux = IF daemon.graceful THEN "quiet"
                                      ELSE "failure"]
  /\ DaemonStep

\* the serve loop of the multiplexer returns with another error
MuxServeFails ==
  /\ Serving(daemon)
  /\ daemon.mux = "serving"
  /\ daemon.listener = "open"
  /\ daemon' = [daemon EXCEPT !.mux = "failure", !.failed = TRUE]
  /\ DaemonStep

\* the steps of the program and of the servers it has stopped
Progress ==
  \/ HandleSignalAct
  \/ HandlerStep
  \/ MainStep
  \/ StreamServerReturns
  \/ ExitMonitorStops
  \/ HookMonitorExits
  \/ MuxServeReturns

NextDaemon ==
  \/ StartDaemon
  \/ SignalAct
  \/ StreamServerFails
  \/ MuxServeFails
  \/ HandleSignalAct
  \/ HandlerStep
  \/ MainStep
  \/ StreamServerReturns
  \/ ExitMonitorStops
  \/ HookMonitorExits
  \/ MuxServeReturns

\* one run of the daemon
SpecDaemon == Init /\ [][NextDaemon]_vars

\* the same with every goroutine scheduled: no step of the program or of a
\* stopped server waits for ever; signals and failures come or not
SpecDaemonFair ==
  /\ SpecDaemon
  /\ WF_vars(StartDaemon)
  /\ WF_vars(HandleSignalAct)
  /\ WF_vars(HandlerStep)
  /\ WF_vars(MainStep)
  /\ WF_vars(StreamServerReturns)
  /\ WF_vars(ExitMonitorStops)
  /\ WF_vars(HookMonitorExits)
  /\ WF_vars(MuxServeReturns)

(***************************************************************************)
(* ContainerStateToDisk step by step, as a call of its own and as the end  *)
(* of LoadContainer, on concurrent threads.  The state is encoded into the *)
(* temporary file of an atomic file writer, whose Close renames it onto    *)
(* state.json.                                                             *)
(***************************************************************************)
\* ioutils.NewAtomicFileWriter: the temporary file next to the target
NewAtomicFileWriter(ok) ==
  IF ok THEN [tmp |-> NoState, err |-> "nil"] ELSE [tmp |-> NoFile, err |-> "open"]

\* Write of the atomic file writer: a failed write leaves a part of the data
\* in the temporary file and is remembered
AtomicFileWriterWrite(data, ok) ==
  IF ok THEN [tmp |-> data, writeErr |-> FALSE, err |-> "nil"]
  ELSE [tmp |-> Partial, writeErr |-> TRUE, err |-> "encode"]

\* Close of the atomic file writer: sync and close the temporary file and,
\* if no write failed, rename it onto the target; otherwise remove it
AtomicFileWriterClose(target, tmp, writeErr, ok) ==
  IF ok /\ ~writeErr
    THEN [file |-> tmp, err |-> "nil"]
    ELSE [file |-> target, err |-> IF ok THEN "nil" ELSE "close"]

StateStep ==
  UNCHANGED <<startup, concVars, diskVars, lockVars, runtimeCalls, ret, nsVars,
              moreVars>>
WriterAt(w, pc) == writers[w].pc = pc
WriterGoes(w, pc) == writers' = [writers EXCEPT ![w].pc = pc]
\* the store when the call of w returns err: the deferred release of
\* LoadContainer has run
Leave(w, err) ==
  IF writers[w].op = "LoadContainer" /\ err # "nil"
    THEN [Store EXCEPT !.ctrNameIndex =
                         ReleaseContainerName(@, OciName(writers[w].id))]
    ELSE Store
Loading(id) ==
  \E w \in Threads : writers[w].op = "LoadContainer" /\ writers[w].id = id

\* ContainerStateToDisk(ctr) of a handler, for a stored container or nil
TD_Start ==
  \E w \in Threads, id \in DOMAIN containers \cup {NoCtr} :
    /\ WriterAt(w, "idle")
    /\ writers' = [writers EXCEPT ![w] =
                     [IdleWriter EXCEPT !.op = "ContainerStateToDisk",
                                        !.id = id,
                                        !.pc = IF id = NoCtr THEN "done"
                                               ELSE "update"]]
    /\ UNCHANGED <<storeVars, runtimeState, ctrState, stateFiles, tmpFiles>>
    /\ StateStep

\* LoadContainer(id) up to the lookup of the sandbox; the container is not
\* in the store and no other load of it is running
LC_Start ==
  \E w \in Threads, j \in Ctrs :
    LET id == CtrId(j)
        r == ReserveContainerName(ctrNameIndex, id, CtrName(j))
    IN /\ WriterAt(w, "idle")
       /\ ~Has(containers, id)
       /\ ~Loading(id)
       /\ CASE r.err # "nil" ->
                 /\ writers' = [writers EXCEPT ![w] =
                                  [IdleWriter EXCEPT !.op = "LoadContainer",
                                                     !.id = id, !.pc = "done",
                                                     !.err = r.err]]
                 /\ UNCHANGED storeVars
            [] GetSandbox(Store, CtrSandbox(j)) = {} ->
                 /\ writers' = [writers EXCEPT ![w] =
                                  [IdleWriter EXCEPT !.op = "LoadContainer",
                                                     !.id = id, !.pc = "done",
                                                     !.err = "noSandbox"]]
                 /\ SetStore([Store EXCEPT !.ctrNameIndex =
                                ReleaseContainerName(r.reg, r.name)])
            [] OTHER ->
                 /\ writers' = [writers EXCEPT ![w] =
                                  [IdleWriter EXCEPT !.op = "LoadContainer",
                                                     !.id = id,
                                                     !.pc = "fromDisk",
                                                     !.down = runtimeState[id]]]
                 /\ SetStore([Store EXCEPT !.ctrNameIndex = r.reg])
       /\ ctrState' = [ctrState EXCEPT ![id] = NoState]
       /\ UNCHANGED <<runtimeState, stateFiles, tmpFiles>>
       /\ StateStep

\* ctr.FromDisk()
LC_FromDisk ==
  \E w \in Threads, ok \in BOOLEAN :
    LET id == writers[w].id
    IN /\ WriterAt(w, "fromDisk")
       /\ IF ok
            THEN /\ ctrState' = [ctrState EXCEPT ![id] = stateFiles[id]]
                 /\ WriterGoes(w, "refresh")
                 /\ UNCHANGED storeVars
            ELSE /\ writers' = [writers EXCEPT ![w].pc = "done",
                                               ![w].err = "state"]
                 /\ SetStore(Leave(w, "state"))
                 /\ UNCHANGED ctrState
       /\ UNCHANGED <<runtimeState, stateFiles, tmpFiles>>
       /\ StateStep

\* c.runtime.UpdateContainerStatus(ctr) of ContainerStateFromDisk
LC_Refresh ==
  \E w \in Threads, ok \in BOOLEAN :
    LET r == RuntimeUpdateContainerStatus(runtimeState, ctrState,
                                          writers[w].id, ok)
    IN /\ WriterAt(w, "refresh")
       /\ ctrState' = r.st
       /\ IF r.err = "nil"
            THEN WriterGoes(w, "update") /\ UNCHANGED storeVars
            ELSE /\ writers' = [writers EXCEPT ![w].pc = "done",
                                               ![w].err = "state"]
                 /\ SetStore(Leave(w, "state"))
       /\ UNCHANGED <<runtimeState, stateFiles, tmpFiles>>
       /\ StateStep

\* c.Runtime().UpdateContainerStatus(ctr), its error only logged
TD_Update ==
  \E w \in Threads, ok \in BOOLEAN :
    LET r == RuntimeUpdateContainerStatus(runtimeState, ctrState,
                                          writers[w].id, ok)
    IN /\ WriterAt(w, "update")
       /\ ctrState' = r.st
       /\ WriterGoes(w, "open")
       /\ UNCHANGED <<storeVars, runtimeState, stateFiles, tmpFiles>>
       /\ StateStep

\* jsonSource, err := ioutils.NewAtomicFileWriter(ctr.StatePath(), 0644)
TD_Open ==
  \E w \in Threads, ok \in BOOLEAN :
    LET f == NewAtomicFileWriter(ok)
    IN /\ WriterAt(w, "open")
       /\ tmpFiles' = [tmpFiles EXCEPT ![w] = f.tmp]
       /\ IF f.err = "nil"
            THEN WriterGoes(w, "encode") /\ UNCHANGED storeVars
            ELSE /\ writers' = [writers EXCEPT ![w].pc = "done",
                                               ![w].err = f.err]
                 /\ SetStore(Leave(w, f.err))
       /\ UNCHANGED <<runtimeState, ctrState, stateFiles>>
       /\ StateStep

\* return enc.Encode(ctr.State())
TD_Encode ==
  \E w \in Threads, ok \in BOOLEAN :
    LET f == AtomicFileWriterWrite(ctrState[writers[w].id], ok)
    IN /\ WriterAt(w, "encode")
       /\ tmpFiles' = [tmpFiles EXCEPT ![w] = f.tmp]
       /\ writers' = [writers EXCEPT ![w].pc = "close",
                                     ![w].err = f.err,
                                     ![w].writeErr = f.writeErr,
                                     ![w].snap = ctrState[writers[w].id]]
       /\ UNCHANGED <<storeVars, runtimeState, ctrState, stateFiles>>
       /\ StateStep

\* the step of the call after ContainerStateToDisk returned err
TD_AfterClose(op, err) ==
  IF op = "LoadContainer" /\ err = "nil" THEN "register" ELSE "done"

\* defer jsonSource.Close(): its error is not looked at
TD_Close ==
  \E w \in Threads, ok \in BOOLEAN :
    LET id == writers[w].id
        f == AtomicFileWriterClose(stateFiles[id], tmpFiles[w],
                                   writers[w].writeErr, ok)
    IN /\ WriterAt(w, "close")
       /\ stateFiles' = [stateFiles EXCEPT ![id] = f.file]
       /\ tmpFiles' = [tmpFiles EXCEPT ![w] = NoFile]
       /\ WriterGoes(w, TD_AfterClose(writers[w].op, writers[w].err))
       /\ SetStore(Leave(w, writers[w].err))
       /\ UNCHANGED <<runtimeState, ctrState>>
       /\ StateStep

\* ctr.SetCreated(); c.AddContainer(ctr); return c.ctrIDIndex.Add(id)
LC_Register ==
  \E w \in Threads :
    LET id == writers[w].id
        s1 == AddContainer(Store, id,
                           NewContainer(OciName(id), CtrSandbox(CtrOf(id))))
        x == TruncIndexAdd(s1.ctrIDIndex, id)
        err == IF x.err = "nil" THEN "nil" ELSE "ctrIDIndex"
        s2 == [s1 EXCEPT !.ctrIDIndex = x.idx, !.written = @ \cup {id}]
    IN /\ WriterAt(w, "register")
       /\ writers' = [writers EXCEPT ![w].pc = "done", ![w].err = err]
       /\ SetStore(IF err = "nil" THEN s2
                   ELSE [s2 EXCEPT !.ctrNameIndex =
                                     ReleaseContainerName(@, OciName(id))])
       /\ UNCHANGED <<runtimeState, ctrState, stateFiles, tmpFiles>>
       /\ StateStep

\* the call has returned; the thread is free for its next call
WR_Return ==
  \E w \in Threads :
    /\ WriterAt(w, "done")
    /\ writers' = [writers EXCEPT ![w] = IdleWriter]
    /\ UNCHANGED <<storeVars, runtimeState, ctrState, stateFiles, tmpFiles>>
    /\ StateStep

\* the process of a running container exits by itself
WR_ContainerExits ==
  \E id \in CtrIds, code \in ExitCodes :
    /\ runtimeState[id].status = "running"
    /\ runtimeState' = [runtimeState EXCEPT ![id] = Stopped(code)]
    /\ UNCHANGED <<storeVars, ctrState, stateFiles, tmpFiles, writers>>
    /\ StateStep

\* the daemon starts with its sandboxes loaded; since it last wrote the
\* state.json of a container, the container may have exited
InitState ==
  /\ NoCalls
  /\ namespace = PinnedNamespace
  /\ NoContainers
  /\ managers = [d \in PodIds \cup CtrIds |-> ContainerManagerCRIO]
  /\ sandboxes = SandboxesAdded(PodIds)
  /\ processLevels = LevelsAdded(PodIds)
  /\ ctrState = [id \in OciIds |-> IF id \in CtrIds THEN NoState ELSE Running]
  /\ runtimeState \in [OciIds -> ContainerStates]
  /\ stateFiles \in [OciIds -> ContainerStates]
  /\ \A id \in OciIds \ CtrIds :
       runtimeState[id] = Running /\ stateFiles[id] = Running
  /\ \A id \in CtrIds :
       stateFiles[id].status = "stopped" => runtimeState[id] = stateFiles[id]

NextState ==
  \/ TD_Start
  \/ LC_Start
  \/ LC_FromDisk
  \/ LC_Refresh
  \/ TD_Update
  \/ TD_Open
  \/ TD_Encode
  \/ TD_Close
  \/ LC_Register
  \/ WR_Return
  \/ WR_ContainerExits

\* containers loaded after an outage, and their state written by handlers
SpecState == InitState /\ [][NextState]_vars

(***************************************************************************)
(* Namespace.Remove step by step, called by concurrent threads on one      *)
(* record.  ok tells whether the environment lets a step succeed.          *)
(***************************************************************************)
NsStep ==
  UNCHANGED <<storeVars, ret, startup, concVars, diskVars, lockVars, ociVars,
              fileVars, moreVars>>
NsCallAt(t, pc) == nsCalls[t].pc = pc
NsCallGoes(t, pc) == nsCalls' = [nsCalls EXCEPT ![t].pc = pc]
\* n.Path()
NsPathOf(n) == n.nsPath

NR_Start ==
  \E t \in Threads :
    /\ NsCallAt(t, "idle")
    /\ nsCalls' = [nsCalls EXCEPT ![t] = [IdleNsCall EXCEPT
                                            !.pc = "lock",
                                            !.after = nsLog.removed]]
    /\ UNCHANGED <<namespace, nsFile, nsLock, nsLog>>
    /\ NsStep

\* n.Lock()
NR_Lock ==
  \E t \in Threads :
    /\ NsCallAt(t, "lock")
    /\ nsLock = 0
    /\ nsLock' = t
    /\ NsCallGoes(t, "check")
    /\ UNCHANGED <<namespace, nsFile, nsLog>>
    /\ NsStep

\* if n.closed { return nil }
NR_Check ==
  \E t \in Threads :
    /\ NsCallAt(t, "check")
    /\ NsCallGoes(t, IF namespace.closed THEN "unlock" ELSE "close")
    /\ UNCHANGED <<namespace, nsFile, nsLock, nsLog>>
    /\ NsStep

\* the record after a Close that succeeded, not marked closed
NsAfterClose_NotMarked(n) == n

\* n.closed = true
NsAfterClose(n) == [n EXCEPT !.closed = TRUE]

\* if err := n.Close(); err != nil { return err }; n.closed = true
NR_Close ==
  \E t \in Threads, ok \in BOOLEAN :
    /\ NsCallAt(t, "close")
    /\ IF ok
         THEN /\ namespace' = NsAfterClose(namespace)
              /\ nsLog' = [nsLog EXCEPT !.closes = @ + 1]
              /\ nsCalls' = [nsCalls EXCEPT ![t].pc = "unmount",
                                            ![t].did = @ \cup {"close"}]
         ELSE /\ nsCalls' = [nsCalls EXCEPT ![t].pc = "unlock",
                                            ![t].err = "close",
                                            ![t].did = @ \cup {"close"}]
              /\ UNCHANGED <<namespace, nsLog>>
    /\ UNCHANGED <<nsFile, nsLock>>
    /\ NsStep

\* if err := utils.Unmount(n.Path()); err != nil { return wrapped err }
NR_Unmount ==
  \E t \in Threads, ok \in BOOLEAN :
    /\ NsCallAt(t, "unmount")
    /\ nsLog' = [nsLog EXCEPT !.unmounts = @ + 1]
    /\ IF ok
         THEN /\ nsFile' = [nsFile EXCEPT !.mounted = FALSE]
              /\ nsCalls' = [nsCalls EXCEPT ![t].pc = "delete",
                                            ![t].did = @ \cup {"unmount"}]
         ELSE /\ nsCalls' = [nsCalls EXCEPT ![t].pc = "unlock",
                                            ![t].err = "unmount",
                                            ![t].did = @ \cup {"unmount"}]
              /\ UNCHANGED nsFile
    /\ UNCHANGED <<namespace, nsLock>>
    /\ NsStep

\* if n.Path() != "" { if err := os.RemoveAll(n.Path()); ... }
NR_Delete ==
  \E t \in Threads, ok \in BOOLEAN :
    /\ NsCallAt(t, "delete")
    /\ IF NsPathOf(namespace) = ""
         THEN /\ NsCallGoes(t, "unlock")
              /\ UNCHANGED <<nsFile, nsLog>>
         ELSE /\ nsLog' = [nsLog EXCEPT !.deletes = @ + 1]
              /\ nsFile' = IF ok THEN [nsFile EXCEPT !.exists = FALSE,
                                                     !.mounted = FALSE]
                           ELSE nsFile
              /\ nsCalls' = [nsCalls EXCEPT ![t].pc = "unlock",
                                            ![t].err = IF ok THEN "nil"
                                                       ELSE "delete",
                                            ![t].did = @ \cup {"delete"}]
    /\ UNCHANGED <<namespace, nsLock>>
    /\ NsStep

\* defer n.Unlock(); the call returns
NR_Unlock ==
  \E t \in Threads :
    /\ NsCallAt(t, "unlock")
    /\ nsLock' = 0
    /\ NsCallGoes(t, "done")
    /\ nsLog' = [nsLog EXCEPT !.removed = @ \/ nsCalls[t].err = "nil"]
    /\ UNCHANGED <<namespace, nsFile>>
    /\ NsStep

\* the thread is free for its next call
NR_Return ==
  \E t \in Threads :
    /\ NsCallAt(t, "done")
    /\ nsCalls' = [nsCalls EXCEPT ![t] = IdleNsCall]
    /\ UNCHANGED <<namespace, nsFile, nsLock, nsLog>>
    /\ NsStep

\* the record is one that was pinned, or one that joined a given path
InitNs ==
  /\ Fresh
  /\ managers = [d \in PodIds \cup CtrIds |-> ContainerManagerCRIO]
  /\ namespace \in {PinnedNamespace, JoinedNamespace}

NextNs ==
  \/ NR_Start
  \/ NR_Lock
  \/ NR_Check
  \/ NR_Close
  \/ NR_Unmount
  \/ NR_Delete
  \/ NR_Unlock
  \/ NR_Return

\* Remove called on one namespace record by concurrent threads
SpecNs == InitNs /\ [][NextNs]_vars

(***************************************************************************)
(* The namespaces of one sandbox: records pinned by the helper binary,     *)
(* records joined by path, and the paths the sandbox reports.              *)
(***************************************************************************)
\* nspkg.IsNSorErr: the path is statfs'ed; it must exist and lie on nsfs or
\* procfs.  The kind of the namespace is no part of the test
IsNSorErr(nsPath) ==
  IF nsPath = MissingPath THEN "notExist"
  ELSE IF nsPath = PlainDir THEN "notNS"
  ELSE "nil"

\* nspkg.GetNS: the same test, then the file is opened
GetNS(nsPath) == IsNSorErr(nsPath)

\* every path is refused
getNamespace_RefusesAll(nsPath) == [n |-> NilNamespace, err |-> "notNS"]

getNamespace(nsPath) ==
  IF IsNSorErr(nsPath) # "nil"
    THEN [n |-> NilNamespace, err |-> IsNSorErr(nsPath)]
  ELSE IF GetNS(nsPath) # "nil"
    THEN [n |-> NilNamespace, err |-> GetNS(nsPath)]
  ELSE [n |-> [ns |-> TRUE, closed |-> FALSE, initialized |-> FALSE,
               nsType |-> "", nsPath |-> nsPath],
        err |-> "nil"]

\* n.Initialize()
Initialize(n) == [n EXCEPT !.closed = FALSE, !.initialized = TRUE]

\* the test of the handle is inverted
Path_Inverted(n) == IF n.ns THEN NoPath ELSE n.nsPath

\* n.Path()
Path(n) == IF ~n.ns THEN NoPath ELSE n.nsPath

typeToArg ==
  [k \in ManagedKinds |->
     CASE k = IPCNS -> "-i" [] k = UTSNS -> "-u" [] k = USERNS -> "-U"
       [] k = NETNS -> "-n"]

\* what a call of a pinning function did: whether the helper ran, its
\* arguments, the paths unmounted and those whose unmount failed, the
\* records returned, the error; left holds the paths the call leaves mounted
\* and the paths whose handle it opened and did not close
PinResult(ran, args, cleanup, namespaces, err, left) ==
  [ran |-> ran, args |-> args, unmounts |-> cleanup.unmounts,
   failedUmounts |-> cleanup.failedUmounts, namespaces |-> namespaces,
   err |-> err, mounted |-> left.mounted, opened |-> left.opened]

Left(mounted, opened) == [mounted |-> mounted, opened |-> opened]
NothingLeft == Left({}, << >>)

NoCleanup == [unmounts |-> << >>, failedUmounts |-> << >>]

\* the first i paths of a list of mounted namespaces
PathsUpTo(mounted, i) == [x \in 1..i |-> mounted[x].path]

\* the cleanup stops at the first unmount that fails
CleanupAfterFailure_StopsAtFailedUnmount(mounted, unmountFails) ==
  LET failing == {i \in DOMAIN mounted : mounted[i].path \in unmountFails}
      last == IF failing = {} THEN Len(mounted)
              ELSE CHOOSE i \in failing : \A j \in failing : i <= j
  IN [unmounts |-> PathsUpTo(mounted, last),
      failedUmounts |-> SelectSeq(PathsUpTo(mounted, last),
                                  LAMBDA x : x \in unmountFails)]

\* the cleanup after a failure of the helper: every would-be path is
\* unmounted, the paths whose unmount failed are collected
CleanupAfterFailure(mounted, unmountFails) ==
  [unmounts |-> PathsUpTo(mounted, Len(mounted)),
   failedUmounts |-> SelectSeq(PathsUpTo(mounted, Len(mounted)),
                               LAMBDA x : x \in unmountFails)]

\* pinNamespaces(nsTypes, cfg).  pinnsOk tells whether the helper exits with
\* success, unmountFails the paths whose unmount fails, stay those of them
\* that the failed helper had mounted, getNSFails the paths that cannot be
\* opened afterwards.  The helper that succeeds has mounted every path; the
\* loop that opens the paths returns at the first failure, with the handles
\* opened before it
pinNamespaces(nsTypes, pinnsOk, unmountFails, stay, getNSFails) ==
  LET mounted == [i \in DOMAIN nsTypes |->
                    [path |-> PinnedPath(nsTypes[i]), nsType |-> nsTypes[i]]]
      pinnsArgs == <<"-d", "-f">> \o
                   [i \in DOMAIN nsTypes |->
                      IF nsTypes[i] \in DOMAIN typeToArg
                        THEN typeToArg[nsTypes[i]] ELSE ""]
      cleanup == CleanupAfterFailure(mounted, unmountFails)
      paths == PathsUpTo(mounted, Len(mounted))
      all == {paths[i] : i \in DOMAIN paths}
      failing == {i \in DOMAIN mounted : mounted[i].path \in getNSFails}
      first == CHOOSE i \in failing : \A j \in failing : i <= j
  IN IF \E i \in DOMAIN nsTypes : nsTypes[i] \notin DOMAIN typeToArg
       THEN PinResult(FALSE, << >>, NoCleanup, << >>, "invalidType",
                      NothingLeft)
     ELSE IF ~pinnsOk
       THEN PinResult(TRUE, pinnsArgs, cleanup, << >>,
                      IF Len(cleanup.failedUmounts) # 0 THEN "cleanup"
                      ELSE "pin",
                      Left(stay \cap unmountFails, << >>))
     ELSE IF failing # {}
       THEN PinResult(TRUE, pinnsArgs, NoCleanup, << >>, "getNS",
                      Left(all, PathsUpTo(mounted, first - 1)))
     ELSE PinResult(TRUE, pinnsArgs, NoCleanup,
                    [i \in DOMAIN mounted |->
                       [ns |-> TRUE, closed |-> FALSE, initialized |-> FALSE,
                        nsType |-> mounted[i].nsType,
                        nsPath |-> mounted[i].path]],
                    "nil", Left(all, paths))

\* pinNamespacesFunctor.pinNamespaces of the sandbox's tests: one mock record
\* per kind, the user kind left out when there are no mappings
FunctorPinNamespaces(nsTypes, mappings) ==
  LET kept == SelectSeq(nsTypes, LAMBDA t : ~(~mappings /\ t = USERNS))
  IN PinResult(FALSE, << >>, NoCleanup,
               [i \in DOMAIN kept |->
                  [ns |-> TRUE, closed |-> FALSE, initialized |-> FALSE,
                   nsType |-> kept[i], nsPath |-> FunctorPath(kept[i])]],
               "nil", NothingLeft)

\* the sandbox's fields after the records were stored, each initialized
WithNamespaces(ns, records) ==
  [k \in (DOMAIN ns) \cup {records[i].nsType : i \in DOMAIN records} |->
     IF \E i \in DOMAIN records : records[i].nsType = k
       THEN Initialize(records[CHOOSE i \in DOMAIN records :
                                  records[i].nsType = k])
       ELSE ns[k]]

\* the records before the one of no managed kind stay stored, and only
\* they and that one are removed
CreateNamespacesWithFunc_StoresUntilInvalid(ns, managedNamespaces, pinned) ==
  IF Len(managedNamespaces) = 0
    THEN [ns |-> ns, out |-> << >>, removed |-> {}, err |-> "nil"]
  ELSE IF pinned.err # "nil"
    THEN [ns |-> ns, out |-> << >>, removed |-> {}, err |-> pinned.err]
  ELSE IF \E i \in DOMAIN pinned.namespaces :
            pinned.namespaces[i].nsType \notin ManagedKinds
    THEN LET bad == CHOOSE i \in DOMAIN pinned.namespaces :
                      /\ pinned.namespaces[i].nsType \notin ManagedKinds
                      /\ \A j \in 1..(i - 1) :
                           pinned.namespaces[j].nsType \in ManagedKinds
         IN [ns |-> WithNamespaces(ns, SubSeq(pinned.namespaces, 1, bad - 1)),
             out |-> << >>,
             removed |-> {pinned.namespaces[i].nsPath : i \in 1..bad},
             err |-> "invalidType"]
  ELSE [ns |-> WithNamespaces(ns, pinned.namespaces),
        out |-> [i \in DOMAIN pinned.namespaces |->
                   [nsType |-> pinned.namespaces[i].nsType,
                    path |-> Path(pinned.namespaces[i])]],
        removed |-> {},
        err |-> "nil"]

\* Sandbox.CreateNamespacesWithFunc: nothing is pinned for an empty request;
\* the records of the pinning function are stored, and when one of them is
\* of no managed kind all of them are removed and none is stored
CreateNamespacesWithFunc(ns, managedNamespaces, pinned) ==
  IF Len(managedNamespaces) = 0
    THEN [ns |-> ns, out |-> << >>, removed |-> {}, err |-> "nil"]
  ELSE IF pinned.err # "nil"
    THEN [ns |-> ns, out |-> << >>, removed |-> {}, err |-> pinned.err]
  ELSE IF \E i \in DOMAIN pinned.namespaces :
            pinned.namespaces[i].nsType \notin ManagedKinds
    THEN [ns |-> ns, out |-> << >>,
          removed |-> {pinned.namespaces[i].nsPath :
                         i \in DOMAIN pinned.namespaces},
          err |-> "invalidType"]
  ELSE [ns |-> WithNamespaces(ns, pinned.namespaces),
        out |-> [i \in DOMAIN pinned.namespaces |->
                   [nsType |-> pinned.namespaces[i].nsType,
                    path |-> Path(pinned.namespaces[i])]],
        removed |-> {},
        err |-> "nil"]

\* Sandbox.NetNsJoin, IpcNsJoin, UtsNsJoin, UserNsJoin
NsJoin(ns, kind, nsPath) ==
  IF Has(ns, kind)
    THEN [ns |-> ns, err |-> "already"]
  ELSE IF getNamespace(nsPath).err # "nil"
    THEN [ns |-> ns, err |-> getNamespace(nsPath).err]
  ELSE [ns |-> Put(ns, kind, getNamespace(nsPath).n), err |-> "nil"]

\* the pid of the infra container's process, -1 without a live process
infraPid(infra) ==
  IF infra.set /\ infra.pid > 0 /\ infra.pid \in LivePids
    THEN infra.pid ELSE -1

infraNsPath(kind, pid) == IF pid <= 0 THEN NoPath ELSE InfraNsFile(pid, kind)

nsPathGivenInfraPid(ns, kind, pid) ==
  IF ~Has(ns, kind) THEN infraNsPath(kind, pid) ELSE Path(ns[kind])

\* Sandbox.NamespacePaths: kind -> path, for the kinds that have a path
NamespacePaths(ns, infra) ==
  [k \in {x \in ManagedKinds :
            nsPathGivenInfraPid(ns, x, infraPid(infra)) # NoPath} |->
     nsPathGivenInfraPid(ns, k, infraPid(infra))]

SbStep ==
  UNCHANGED <<storeVars, startup, concVars, diskVars, lockVars, ociVars,
              fileVars, nsVars, execVars, cpVars, lateVars>>

\* a namespace file of another kind than k
OtherKind(k) ==
  CASE k = NETNS -> IPCNS [] k = IPCNS -> UTSNS [] k = UTSNS -> USERNS
    [] k = USERNS -> NETNS

\* the paths a join of kind k is tried with
JoinPathsOf(k) == {MissingPath, PlainDir, ProcSelfNs(k), ProcSelfNs(OtherKind(k))}

NsJoinAct ==
  \E kind \in ManagedKinds :
    \E nsPath \in JoinPathsOf(kind) :
      LET r == NsJoin(sbNs, kind, nsPath)
      IN /\ sbNs' = r.ns
         /\ ret' = Ret("NsJoin", <<kind>>, nsPath, r.err, << >>)
         /\ pinCall' = NoPinCall
         /\ sbRemoved' = {}
         /\ UNCHANGED sbInfra
         /\ SbStep

\* the paths of the kinds a request names
RequestedPaths(nsTypes) == {PinnedPath(nsTypes[i]) : i \in DOMAIN nsTypes}

\* what the helper and the file system do in one call of pinNamespaces: the
\* helper fails and some unmounts fail, or it succeeds and a path at most
\* cannot be opened
PinEnvs(nsTypes) ==
  UNION {{[pinnsOk |-> FALSE, unmountFails |-> u, stay |-> m,
           getNSFails |-> {}] : m \in SUBSET u} :
         u \in SUBSET RequestedPaths(nsTypes)}
  \cup
  {[pinnsOk |-> TRUE, unmountFails |-> {}, stay |-> {}, getNSFails |-> g] :
     g \in {{}} \cup {{x} : x \in RequestedPaths(nsTypes)}}

\* the sandbox is new: its namespaces are created before any other call
\* but the setting of its infra container
NewSandboxNs == DOMAIN sbNs = {} /\ ret.op \in {"New", "SetInfraContainer"}

CreateNamespaces(managedNamespaces, mappings, func, pinnsOk, pinned) ==
  LET r == CreateNamespacesWithFunc(sbNs, managedNamespaces, pinned)
  IN /\ sbNs' = r.ns
     /\ sbRemoved' = r.removed
     /\ pinCall' = IF Len(managedNamespaces) = 0 THEN NoPinCall
                   ELSE [func |-> func, mappings |-> mappings,
                         nsTypes |-> managedNamespaces, ran |-> pinned.ran,
                         failed |-> pinned.ran /\ ~pinnsOk,
                         args |-> pinned.args, unmounts |-> pinned.unmounts,
                         failedUmounts |-> pinned.failedUmounts,
                         namespaces |-> pinned.namespaces,
                         err |-> pinned.err, mounted |-> pinned.mounted,
                         opened |-> pinned.opened]
     /\ ret' = Ret("CreateNamespaces", managedNamespaces, << >>, r.err, r.out)
     /\ UNCHANGED sbInfra
     /\ SbStep

\* Sandbox.CreateManagedNamespaces: the namespaces are pinned by pinNamespaces
CreateManagedNamespacesAct ==
  /\ NewSandboxNs
  /\ \E managedNamespaces \in NsRequests, mappings \in BOOLEAN :
       \E env \in PinEnvs(managedNamespaces) :
         CreateNamespaces(managedNamespaces, mappings, "pinNamespaces",
                          env.pinnsOk,
                          pinNamespaces(managedNamespaces, env.pinnsOk,
                                        env.unmountFails, env.stay,
                                        env.getNSFails))

\* Sandbox.CreateNamespacesWithFunc with the functor of the tests
CreateNamespacesWithFunctorAct ==
  /\ NewSandboxNs
  /\ \E managedNamespaces \in NsRequests, mappings \in BOOLEAN :
       CreateNamespaces(managedNamespaces, mappings, "functor", TRUE,
                        FunctorPinNamespaces(managedNamespaces, mappings))

SetInfraContainerAct ==
  \E pid \in InfraPids :
    /\ ~sbInfra.set
    /\ sbInfra' = [set |-> TRUE, pid |-> pid]
    /\ ret' = Ret("SetInfraContainer", << >>, << >>, "nil", << >>)
    /\ pinCall' = NoPinCall
    /\ sbRemoved' = {}
    /\ UNCHANGED sbNs
    /\ SbStep

NamespacePathsAct ==
  /\ ret' = Ret("NamespacePaths", << >>, << >>, "nil",
                NamespacePaths(sbNs, sbInfra))
  /\ pinCall' = NoPinCall
  /\ sbRemoved' = {}
  /\ UNCHANGED <<sbNs, sbInfra>>
  /\ SbStep

NextSandbox ==
  \/ NsJoinAct
  \/ CreateManagedNamespacesAct
  \/ CreateNamespacesWithFunctorAct
  \/ SetInfraContainerAct
  \/ NamespacePathsAct

\* one sandbox, its namespaces created, joined and listed
SpecSandbox == Init /\ [][NextSandbox]_vars

NextDisk ==
  \/ LoadSandboxAct
  \/ LoadContainerAct

\* rehydration over directories that carry any manager marker
SpecDisk == InitDisk /\ [][NextDisk]_vars

(***************************************************************************)
(* LoadSandbox step by step, next to a concurrent reader.  Every step is   *)
(* one call on a registrar, an index or the store, each of which guards    *)
(* its own state; loader.pc names the step the load will take next.        *)
(***************************************************************************)
LoaderAt(pcs) == loader.pc \in pcs
LoaderPod == loader.pod
LoaderGoes(pc) == loader' = [loader EXCEPT !.pc = pc]
LoaderFails(err) == loader' = [loader EXCEPT !.pc = "failed", !.err = err]
ConcStep == UNCHANGED <<ret, startup, auxVars>>

\* the deferred calls registered when the load is at pc, applied to t
Deferred(pc, t) ==
  LET i == LoaderPod
      d1(u) == [u EXCEPT !.podNameIndex = ReleasePodName(@, PodName(i))]
      d2(u) == RemoveSandbox(u, PodId(i)).st
      d3(u) == [u EXCEPT !.ctrNameIndex = ReleaseContainerName(@, InfraName(i))]
  IN CASE pc = "reservePod" -> t
       [] pc = "addSandbox" -> d1(t)
       [] pc = "reserveCtr" -> d1(d2(t))
       [] OTHER -> d1(d2(d3(t)))

LS_Start ==
  \E i \in Pods :
    /\ LoaderAt({"idle"})
    /\ loader' = [pc |-> "reservePod", pod |-> i, err |-> "nil"]
    /\ UNCHANGED <<storeVars, handlers, configs, seen>>
    /\ ConcStep

LS_ReservePod ==
  LET r == ReservePodName(podNameIndex, PodId(LoaderPod), PodName(LoaderPod))
  IN /\ LoaderAt({"reservePod"})
     /\ SetStore([Store EXCEPT !.podNameIndex = r.reg])
     /\ IF r.err # "nil" THEN LoaderFails(r.err) ELSE LoaderGoes("addSandbox")
     /\ UNCHANGED <<handlers, configs, seen>>
     /\ ConcStep

\* an error of a step that touches no shared state (parsing, storage and
\* runtime calls): the load returns through its deferred calls
LS_Error ==
  /\ LoaderAt({"addSandbox", "reserveCtr", "state", "infra"})
  /\ SetStore(Deferred(loader.pc, Store))
  /\ LoaderFails(CASE loader.pc = "addSandbox" -> "spec"
                   [] loader.pc = "reserveCtr" -> "dirs"
                   [] loader.pc = "state" -> "state"
                   [] OTHER -> "label")
  /\ UNCHANGED <<handlers, configs, seen>>
  /\ ConcStep

LS_AddSandbox ==
  LET i == LoaderPod
      a == AddSandbox(Store, PodId(i), NewSandbox(PodName(i), PodLabel(i)))
  IN /\ LoaderAt({"addSandbox"})
     /\ LevelCount(processLevels, PodLabel(i)) < MaxRefs
     /\ IF a.err # "nil"
          THEN SetStore(Deferred("addSandbox", a.st)) /\ LoaderFails(a.err)
          ELSE SetStore(a.st) /\ LoaderGoes("reserveCtr")
     /\ UNCHANGED <<handlers, configs, seen>>
     /\ ConcStep

LS_ReserveCtr ==
  LET i == LoaderPod
      r == ReserveContainerName(ctrNameIndex, InfraId(i), InfraName(i))
  IN /\ LoaderAt({"reserveCtr"})
     /\ IF r.err # "nil"
          THEN SetStore(Deferred("reserveCtr", Store)) /\ LoaderFails(r.err)
          ELSE /\ SetStore([Store EXCEPT !.ctrNameIndex = r.reg])
               /\ LoaderGoes("state")
     /\ UNCHANGED <<handlers, configs, seen>>
     /\ ConcStep

LS_State ==
  /\ LoaderAt({"state"})
  /\ SetStore(ContainerStateToDisk(Store, InfraId(LoaderPod)))
  /\ LoaderGoes("infra")
  /\ UNCHANGED <<handlers, configs, seen>>
  /\ ConcStep

\* sb.SetCreated and sb.SetInfraContainer act on the object LoadSandbox put
\* into the sandboxes map
LS_SetInfra ==
  LET id == PodId(LoaderPod)
      f == SetInfraContainer([sandboxes[id] EXCEPT !.created = TRUE],
                             InfraId(LoaderPod))
  IN /\ LoaderAt({"infra"})
     /\ Has(sandboxes, id)
     /\ IF f.err # "nil"
          THEN SetStore(Deferred("infra", Store)) /\ LoaderFails(f.err)
          ELSE /\ SetStore([Store EXCEPT !.sandboxes = Put(@, id, f.sb)])
               /\ LoaderGoes("index")
     /\ UNCHANGED <<handlers, configs, seen>>
     /\ ConcStep

LS_Index ==
  LET i == LoaderPod
      x1 == TruncIndexAdd(ctrIDIndex, InfraId(i))
      s1 == [Store EXCEPT !.ctrIDIndex = x1.idx]
      x2 == TruncIndexAdd(s1.podIDIndex, PodId(i))
      s2 == [s1 EXCEPT !.podIDIndex = x2.idx]
  IN /\ LoaderAt({"index"})
     /\ CASE x1.err # "nil" ->
               SetStore(Deferred("index", Store)) /\ LoaderFails("ctrIDIndex")
          [] x2.err # "nil" ->
               SetStore(Deferred("index", s1)) /\ LoaderFails("podIDIndex")
          [] OTHER -> SetStore(s2) /\ LoaderGoes("done")
     /\ UNCHANGED <<handlers, configs, seen>>
     /\ ConcStep

\* GetSandbox / HasSandbox / ListSandboxes / GetSandboxContainer of a reader
ReadSandbox ==
  \E i \in Pods :
    /\ seen' = [pod |-> i,
                has |-> HasSandbox(Store, PodId(i)),
                infra |-> GetSandboxContainer(Store, PodId(i)),
                written |-> InfraId(i) \in written,
                indexed |-> PodId(i) \in podIDIndex]
    /\ UNCHANGED <<storeVars, loader, handlers, configs>>
    /\ ConcStep

(***************************************************************************)
(* CreateContainer of a request handler: reserve the name, write the       *)
(* config.json, register the container in the store and the ID index.      *)
(***************************************************************************)
CreateSandbox == PodId(1)
HandlerAt(h, pc) == handlers[h].pc = pc
HandlerGoes(h, pc, res) ==
  handlers' = [handlers EXCEPT ![h].pc = pc, ![h].res = res]

CC_Start ==
  \E h \in Handlers, name \in CtrNames :
    /\ HandlerAt(h, "idle")
    /\ handlers' = [handlers EXCEPT ![h].pc = "reserve", ![h].name = name]
    /\ UNCHANGED <<storeVars, loader, configs, seen>>
    /\ ConcStep

CC_Reserve ==
  \E h \in Handlers :
    LET r == ReserveContainerName(ctrNameIndex, HandlerCtrId(h),
                                  handlers[h].name)
    IN /\ HandlerAt(h, "reserve")
       /\ SetStore([Store EXCEPT !.ctrNameIndex = r.reg])
       /\ IF r.err # "nil"
            THEN HandlerGoes(h, "failed", "AlreadyExists")
            ELSE HandlerGoes(h, "config", "none")
       /\ UNCHANGED <<loader, configs, seen>>
       /\ ConcStep

CC_WriteConfig ==
  \E h \in Handlers :
    /\ HandlerAt(h, "config")
    /\ configs' = configs \cup {HandlerCtrId(h)}
    /\ HandlerGoes(h, "register", "none")
    /\ UNCHANGED <<storeVars, loader, seen>>
    /\ ConcStep

CC_Register ==
  \E h \in Handlers :
    LET id == HandlerCtrId(h)
        s1 == AddContainer(Store, id,
                           NewContainer(handlers[h].name, CreateSandbox))
        x == TruncIndexAdd(s1.ctrIDIndex, id)
    IN /\ HandlerAt(h, "register")
       /\ SetStore([s1 EXCEPT !.ctrIDIndex = x.idx])
       /\ HandlerGoes(h, "done", "ok")
       /\ UNCHANGED <<loader, configs, seen>>
       /\ ConcStep

NextConc ==
  \/ LS_Start
  \/ LS_ReservePod
  \/ LS_Error
  \/ LS_AddSandbox
  \/ LS_ReserveCtr
  \/ LS_State
  \/ LS_SetInfra
  \/ LS_Index
  \/ ReadSandbox
  \/ CC_Start
  \/ CC_Reserve
  \/ CC_WriteConfig
  \/ CC_Register

\* a rehydration in steps, a reader and two creating handlers, interleaved
SpecConc == Init /\ [][NextConc]_vars

(***************************************************************************)
(* AddSandbox and RemoveSandbox step by step, on concurrent threads.  The  *)
(* sandboxes map guards itself; stateLock serializes the platform hooks    *)
(* and the deletion.                                                       *)
(***************************************************************************)
LockStep ==
  UNCHANGED <<ret, startup, concVars, diskVars, ociVars, fileVars, nsVars,
              moreVars>>
MoverAt(t, op, pc) == movers[t].op = op /\ movers[t].pc = pc
MoverGoes(t, pc) == movers' = [movers EXCEPT ![t].pc = pc]
\* the calls in flight that will raise the count of level l
Adding(l) ==
  Cardinality({t \in Threads :
                 /\ movers[t].op = "AddSandbox"
                 /\ movers[t].label = l
                 /\ movers[t].pc \in {"put", "lock", "platform"}})

RS_Start ==
  \E t \in Threads, i \in Pods :
    /\ MoverAt(t, "none", "idle")
    /\ movers' = [movers EXCEPT ![t] = [IdleMover EXCEPT !.op = "RemoveSandbox",
                                                          !.pc = "get",
                                                          !.pod = i]]
    /\ UNCHANGED <<storeVars, stateLock>>
    /\ LockStep

\* sb := c.state.sandboxes.Get(id); if sb == nil { return nil }
RS_Get ==
  \E t \in Threads :
    LET id == PodId(movers[t].pod)
    IN /\ MoverAt(t, "RemoveSandbox", "get")
       /\ IF GetSandbox(Store, id) = {}
            THEN MoverGoes(t, "done")
            ELSE movers' = [movers EXCEPT ![t].pc = "lock",
                                          ![t].label = sandboxes[id].label]
       /\ UNCHANGED <<storeVars, stateLock>>
       /\ LockStep

\* c.stateLock.Lock()
RS_Lock ==
  \E t \in Threads :
    /\ MoverAt(t, "RemoveSandbox", "lock")
    /\ stateLock = 0
    /\ stateLock' = t
    /\ MoverGoes(t, "platform")
    /\ UNCHANGED storeVars
    /\ LockStep

\* the step after removeSandboxPlatform returned err, deleting unconditionally
RS_AfterPlatform_DeleteAnyway(err) == "delete"

\* if err := c.removeSandboxPlatform(sb); err != nil { return err }
RS_AfterPlatform(err) == IF err # "nil" THEN "unlock" ELSE "delete"

RS_Platform ==
  \E t \in Threads :
    LET sb == NewSandbox(PodName(movers[t].pod), movers[t].label)
        p == removeSandboxPlatform(processLevels, sb)
    IN /\ MoverAt(t, "RemoveSandbox", "platform")
       /\ SetStore([Store EXCEPT !.processLevels = p.levels])
       /\ movers' = [movers EXCEPT ![t].pc = RS_AfterPlatform(p.err),
                                     ![t].err = p.err,
                                     ![t].cleaned = (p.err = "nil")]
       /\ UNCHANGED stateLock
       /\ LockStep

\* c.state.sandboxes.Delete(id)
RS_Delete ==
  \E t \in Threads :
    /\ MoverAt(t, "RemoveSandbox", "delete")
    /\ SetStore([Store EXCEPT !.sandboxes = Del(@, PodId(movers[t].pod))])
    /\ movers' = [movers EXCEPT ![t].pc = "unlock", ![t].deleted = TRUE]
    /\ UNCHANGED stateLock
    /\ LockStep

\* defer c.stateLock.Unlock(), of either call
MV_Unlock ==
  \E t \in Threads :
    /\ movers[t].pc = "unlock"
    /\ stateLock' = 0
    /\ MoverGoes(t, "done")
    /\ UNCHANGED storeVars
    /\ LockStep

\* the call has returned; the thread is free for its next call
MV_Return ==
  \E t \in Threads :
    /\ movers[t].pc = "done"
    /\ movers' = [movers EXCEPT ![t] = IdleMover]
    /\ UNCHANGED <<storeVars, stateLock>>
    /\ LockStep

AS_Start ==
  \E t \in Threads, i \in Pods, l \in Levels \cup {BadLabel} :
    /\ MoverAt(t, "none", "idle")
    /\ LevelCount(processLevels, l) + Adding(l) < MaxRefs
    /\ movers' = [movers EXCEPT ![t] = [IdleMover EXCEPT !.op = "AddSandbox",
                                                          !.pc = "put",
                                                          !.pod = i,
                                                          !.label = l]]
    /\ UNCHANGED <<storeVars, stateLock>>
    /\ LockStep

\* c.state.sandboxes.Add(sb.ID(), sb)
AS_Put ==
  \E t \in Threads :
    LET sb == NewSandbox(PodName(movers[t].pod), movers[t].label)
    IN /\ MoverAt(t, "AddSandbox", "put")
       /\ SetStore([Store EXCEPT !.sandboxes = Put(@, PodId(movers[t].pod), sb)])
       /\ MoverGoes(t, "lock")
       /\ UNCHANGED stateLock
       /\ LockStep

AS_Lock ==
  \E t \in Threads :
    /\ MoverAt(t, "AddSandbox", "lock")
    /\ stateLock = 0
    /\ stateLock' = t
    /\ MoverGoes(t, "platform")
    /\ UNCHANGED storeVars
    /\ LockStep

\* return c.addSandboxPlatform(sb)
AS_Platform ==
  \E t \in Threads :
    LET sb == NewSandbox(PodName(movers[t].pod), movers[t].label)
        p == addSandboxPlatform(processLevels, sb)
    IN /\ MoverAt(t, "AddSandbox", "platform")
       /\ SetStore([Store EXCEPT !.processLevels = p.levels])
       /\ movers' = [movers EXCEPT ![t].pc = "unlock", ![t].err = p.err]
       /\ UNCHANGED stateLock
       /\ LockStep

NextLock ==
  \/ RS_Start
  \/ RS_Get
  \/ RS_Lock
  \/ RS_Platform
  \/ RS_Delete
  \/ MV_Unlock
  \/ MV_Return
  \/ AS_Start
  \/ AS_Put
  \/ AS_Lock
  \/ AS_Platform

\* sandboxes added and removed by concurrent threads
SpecLock == Init /\ [][NextLock]_vars

(***************************************************************************)
(* Properties of rehydration and of the name registrars (Spec).            *)
(***************************************************************************)
\* C1: a LoadSandbox or LoadContainer that returns an error leaves the
\* sandboxes, containers and infra-containers maps, the sandboxes' container
\* lists, both name registrars and both ID indices as they were
C1_FailedLoadChangesNothing ==
  [][(IsLoad(ret') /\ ret'.err # "nil") =>
       UNCHANGED <<sandboxes, containers, infraContainers, podNameIndex,
                   ctrNameIndex, podIDIndex, ctrIDIndex>>]_vars

\* C2: no two stored containers and no two stored sandboxes share a name,
\* and every stored entity holds the reservation of its name for its id
C2_StoredEntitiesHoldTheirNames ==
  /\ \A c \in DOMAIN containers :
       /\ Has(ctrNameIndex, containers[c].name)
       /\ ctrNameIndex[containers[c].name] = c
       /\ \A d \in DOMAIN containers :
            containers[d].name = containers[c].name => d = c
  /\ \A p \in DOMAIN sandboxes :
       /\ Has(podNameIndex, sandboxes[p].name)
       /\ podNameIndex[sandboxes[p].name] = p
       /\ \A q \in DOMAIN sandboxes :
            sandboxes[q].name = sandboxes[p].name => q = p

\* the errors LoadSandbox returns after it reserved the pod name, after it
\* also reserved the infra container name, and those LoadContainer returns
\* after it reserved the container name
AfterPodName ==
  {"spec", "badLabel", "dirs", "ctrNameReserved", "state", "label",
   "infraAlreadySet", "ctrIDIndex", "podIDIndex"}
AfterInfraName ==
  {"state", "label", "infraAlreadySet", "ctrIDIndex", "podIDIndex"}
AfterCtrName == {"metadata", "noSandbox", "state", "ctrIDIndex"}

\* C3: after a failed LoadSandbox the pod name and the infra container name
\* it reserved are free again, after a failed LoadContainer the container
\* name is, and each can be reserved for a different id
C3_FailedLoadReleasesNames ==
  /\ (ret.op = "LoadSandbox" /\ ret.err \in AfterPodName) =>
       /\ ~Has(podNameIndex, ret.name)
       /\ ReservePodName(podNameIndex, NewPodId, ret.name).err = "nil"
  /\ (ret.op = "LoadSandbox" /\ ret.err \in AfterInfraName) =>
       /\ ~Has(ctrNameIndex, InfraName(PodOf(ret.id)))
       /\ ReserveContainerName(ctrNameIndex, NewCtrId,
                               InfraName(PodOf(ret.id))).err = "nil"
  /\ (ret.op = "LoadContainer" /\ ret.err \in AfterCtrName) =>
       /\ ~Has(ctrNameIndex, ret.name)
       /\ ReserveContainerName(ctrNameIndex, NewCtrId, ret.name).err = "nil"

\* a LoadSandbox failed after it had reserved both of its names
C3_Witness ==
  /\ ret.op = "LoadSandbox"
  /\ ret.err = "state"
  /\ ~Has(podNameIndex, ret.name)

\* what the claim requires of a reservation of name for id on registrar reg,
\* that returns (out, err) and leaves the registrar reg2
ReserveAsClaimed(reg, reg2, id, name, out, err) ==
  /\ ~Has(reg, name) =>
       err = "nil" /\ out = name /\ reg2 = Put(reg, name, id)
  /\ (Has(reg, name) /\ reg[name] = id) =>
       err = "nil" /\ out = name /\ reg2 = reg
  /\ (Has(reg, name) /\ reg[name] # id) =>
       err # "nil" /\ out = EmptyName /\ reg2 = reg

\* C9: for both registrars, reserving a free name succeeds, reserving the
\* same (name, id) again succeeds and changes nothing, and reserving a name
\* held by another id fails, returns the empty name and changes nothing
C9_ReserveIsExclusiveAndIdempotent ==
  [][/\ ret'.op = "ReservePodName" =>
          ReserveAsClaimed(podNameIndex, podNameIndex', ret'.id, ret'.name,
                           ret'.out, ret'.err)
     /\ ret'.op = "ReserveContainerName" =>
          ReserveAsClaimed(ctrNameIndex, ctrNameIndex', ret'.id, ret'.name,
                           ret'.out, ret'.err)]_vars

\* a handler was refused a pod name that a loaded sandbox holds
C9_Witness ==
  /\ ret.op = "ReservePodName"
  /\ ret.err # "nil"
  /\ ret.out = EmptyName
  /\ Has(podNameIndex, ret.name)
  /\ podNameIndex[ret.name] # ret.id

\* C12: a LoadContainer of a container whose sandbox is not in the sandboxes
\* map returns an error and leaves the container name registrar, the
\* containers map and the container ID index as they were
C12_LoadWithoutSandboxChangesNothing ==
  [][(ret'.op = "LoadContainer"
        /\ ~Has(sandboxes, CtrSandbox(CtrOf(ret'.id)))) =>
       /\ ret'.err # "nil"
       /\ UNCHANGED <<ctrNameIndex, containers, ctrIDIndex>>]_vars

(***************************************************************************)
(* Properties of rehydration over foreign directories (SpecDisk).          *)
(***************************************************************************)
\* C11: a load of a directory whose config.json has no manager marker, or
\* the marker of another manager, returns the non-managed sentinel error,
\* reserves no name and adds nothing to the store or the ID indices
C11_NonManagedDirectoryIsSkipped ==
  [][(IsLoad(ret') /\ ret'.err # "config"
        /\ managers[ret'.id] # ContainerManagerCRIO) =>
       /\ ret'.err = "ErrIsNonCrioContainer"
       /\ UNCHANGED <<sandboxes, containers, infraContainers, podNameIndex,
                      ctrNameIndex, podIDIndex, ctrIDIndex>>]_vars

(***************************************************************************)
(* Properties of the state store (SpecStore).                              *)
(***************************************************************************)
\* C4: every container in the containers map has a sandbox id that is in
\* the sandboxes map
C4_ContainersHaveTheirSandbox ==
  \A c \in DOMAIN containers : Has(sandboxes, containers[c].sandbox)

\* C5: after RemoveSandbox succeeded, no container of that sandbox is
\* returned by GetContainer, HasContainer or ListContainers, and none has
\* its id in the container ID index or its name in the name registrar
C5_RemovedSandboxContainersUnreachable ==
  (ret.op = "RemoveSandbox" /\ ret.err = "nil") =>
    \A j \in Ctrs :
      CtrSandbox(j) = ret.id =>
        /\ GetContainer(Store, CtrId(j)) = {}
        /\ ~HasContainer(Store, CtrId(j))
        /\ CtrId(j) \notin ListContainers(Store)
        /\ CtrId(j) \notin ctrIDIndex
        /\ ~Has(ctrNameIndex, CtrName(j))

SandboxesUsing(l) == {p \in DOMAIN sandboxes : sandboxes[p].label = l}

\* C8: the reference count of every MCS level equals the number of
\* sandboxes in the sandboxes map that use the level, and is never negative
C8_RefcountEqualsSandboxesUsingLevel ==
  \A l \in Levels :
    /\ LevelCount(processLevels, l) = Cardinality(SandboxesUsing(l))
    /\ LevelCount(processLevels, l) >= 0
    /\ Has(processLevels, l) <=> SandboxesUsing(l) # {}

\* the in-memory ids and names of the persisted set: every sandbox with its
\* infra container, and every container
PersistedIds ==
  [sandboxes |-> PodIds, containers |-> CtrIds, infraContainers |-> InfraIds,
   podIDIndex |-> PodIds, ctrIDIndex |-> CtrIds \cup InfraIds,
   podNameIndex |-> [n \in PodNames |->
                       CHOOSE id \in PodIds : \E i \in Pods :
                         n = PodName(i) /\ id = PodId(i)],
   ctrNameIndex |-> [n \in CtrNames \cup InfraNames |->
                       CHOOSE id \in CtrIds \cup InfraIds :
                         \/ \E j \in Ctrs : n = CtrName(j) /\ id = CtrId(j)
                         \/ \E i \in Pods : n = InfraName(i) /\ id = InfraId(i)]]

RehydratedIds ==
  [sandboxes |-> DOMAIN sandboxes, containers |-> DOMAIN containers,
   infraContainers |-> DOMAIN infraContainers,
   podIDIndex |-> podIDIndex, ctrIDIndex |-> ctrIDIndex,
   podNameIndex |-> podNameIndex, ctrNameIndex |-> ctrNameIndex]

\* C6: on a fresh server, once LoadSandbox has returned nil for every
\* persisted sandbox and LoadContainer for every persisted container, the
\* three maps, the two ID indices and the two name registrars hold exactly
\* the ids and names of the persisted set
C6_RehydrationReproducesPersistedSet ==
  (startup.clean /\ startup.loaded = PodIds \cup CtrIds) =>
    RehydratedIds = PersistedIds

(***************************************************************************)
(* Properties of the container calls (SpecCtrs).                           *)
(***************************************************************************)
InMap(c) == Has(containers, c.id)
InList(c) ==
  /\ Has(sandboxes, c.ctr.sandbox)
  /\ c.id \in sandboxes[c.ctr.sandbox].containers

\* C14: after any sequence of AddContainer and RemoveContainer calls a
\* container is in the containers map exactly if it is in the container list
\* of its sandbox; AddContainer puts it into both, or into neither when the
\* sandbox is unknown, and RemoveContainer takes it out of both
C14_MapAndSandboxListAgree ==
  /\ \A c \in AnyCtrs : InMap(c) <=> InList(c)
  /\ \A p \in DOMAIN sandboxes : \A id \in sandboxes[p].containers :
       Has(containers, id) /\ containers[id].sandbox = p
  /\ \A c \in AnyCtrs :
       /\ (ret.op = "AddContainer" /\ ret.id = c.id) =>
            IF Has(sandboxes, c.ctr.sandbox)
              THEN InMap(c) /\ InList(c)
              ELSE ~InMap(c) /\ ~InList(c)
       /\ (ret.op = "RemoveContainer" /\ ret.id = c.id) =>
            ~InMap(c) /\ ~InList(c)

\* a container was removed from a sandbox that keeps another container
C14_Witness ==
  \E c, d \in AnyCtrs :
    /\ ret.op = "RemoveContainer"
    /\ ret.id = c.id
    /\ c.ctr.sandbox = d.ctr.sandbox
    /\ Has(sandboxes, c.ctr.sandbox)
    /\ ~InMap(c)
    /\ InMap(d)
    /\ InList(d)

(***************************************************************************)
(* Properties of stopping a container (SpecStop).                          *)
(***************************************************************************)
CallNames == [n \in DOMAIN runtimeCalls |-> runtimeCalls[n].call]

\* C15: StopContainerAndWait calls the runtime's stop first and its wait
\* second, the wait only after the stop succeeded; it returns nil only if
\* both succeeded, the container then being seen stopped; the error of
\* either step is returned with the container name in the message, and no
\* step runs after a failed one
C15_StopThenWait ==
  ret.op = "StopContainerAndWait" =>
    /\ CallNames \in {<<"StopContainer">>,
                      <<"StopContainer", "WaitContainerStateStopped">>}
    /\ Len(runtimeCalls) = 2 => runtimeCalls[1].err = "nil"
    /\ runtimeCalls[1].err # "nil" =>
         /\ Len(runtimeCalls) = 1
         /\ ret.err = "stop"
         /\ ret.out = <<"failed to stop container", ret.name>>
    /\ (Len(runtimeCalls) = 2 /\ runtimeCalls[2].err # "nil") =>
         /\ ret.err = "wait"
         /\ ret.out = <<"failed to get container 'stopped' status", ret.name>>
    /\ ret.err = "nil" <=>
         /\ Len(runtimeCalls) = 2
         /\ runtimeCalls[1].err = "nil"
         /\ runtimeCalls[2].err = "nil"
    /\ ret.err = "nil" =>
         /\ ctrState[ret.id].status = "stopped"
         /\ ctrState[ret.id] = runtimeState[ret.id]

\* a stop succeeded and the wait after it failed
C15_Witness ==
  /\ ret.op = "StopContainerAndWait"
  /\ ret.err = "wait"
  /\ Len(runtimeCalls) = 2
  /\ runtimeCalls[1].err = "nil"
  /\ runtimeState[ret.id].status = "stopped"
  /\ ctrState[ret.id].status = "running"

(***************************************************************************)
(* Properties of the state files (SpecState).                              *)
(***************************************************************************)
\* thread w returns from ContainerStateToDisk in this step
ToDiskReturns(w) ==
  /\ writers[w].pc \in {"open", "close"}
  /\ writers'[w].pc \notin {"open", "encode", "close"}

\* C16: when ContainerStateToDisk returns nil for a container, state.json
\* holds the state the container had when it was written; state.json never
\* holds a partial state, and a call that returns an error leaves it as it
\* was
C16_StateFileHoldsWrittenState ==
  [][\A w \in Threads :
       /\ (ToDiskReturns(w) /\ writers'[w].err = "nil") =>
            /\ stateFiles'[writers[w].id] = writers[w].snap
            /\ writers[w].snap \in ContainerStates
       /\ (ToDiskReturns(w) /\ writers'[w].err # "nil") =>
            stateFiles' = stateFiles
       /\ \A id \in OciIds : stateFiles'[id] \in ContainerStates]_vars

\* C17: a LoadContainer of a container that exited while the daemon was
\* down does not register the container before it has read, refreshed and
\* written back the state, and when it has returned nil the container
\* object and state.json both show the container stopped, with the exit
\* code the runtime tells
C17_LoadRecoversExitDuringOutage ==
  \A w \in Threads :
    writers[w].op = "LoadContainer" =>
      /\ writers[w].pc \in {"fromDisk", "refresh", "update", "open", "encode",
                            "close", "register"} =>
           /\ ~Has(containers, writers[w].id)
           /\ writers[w].id \notin ctrIDIndex
      /\ (writers[w].pc = "done" /\ writers[w].err = "nil"
            /\ writers[w].down.status = "stopped") =>
           /\ Has(containers, writers[w].id)
           /\ ctrState[writers[w].id] = writers[w].down
           /\ stateFiles[writers[w].id] = writers[w].down

(***************************************************************************)
(* Properties of namespace removal (SpecNs).                               *)
(***************************************************************************)
ReturnedNil(t) == nsCalls[t].pc = "done" /\ nsCalls[t].err = "nil"

\* C18: once a Remove of a pinned namespace has returned nil, whatever the
\* earlier Remove calls returned, the pinned path is unmounted and does not
\* exist
C18_RemovedPinnedPathIsGone ==
  (namespace.nsPath = "pinned" /\ \E t \in Threads : ReturnedNil(t)) =>
    ~nsFile.mounted /\ ~nsFile.exists

\* C19: over all interleavings of Remove calls on one record the handle is
\* closed successfully at most once and the unmount and the delete run at
\* most once, and a Remove called after a Remove has returned nil returns
\* nil without closing, unmounting or deleting
C19_RemoveIsIdempotent ==
  /\ nsLog.closes <= 1
  /\ nsLog.unmounts <= 1
  /\ nsLog.deletes <= 1
  /\ \A t \in Threads :
       nsCalls[t].after =>
         /\ nsCalls[t].did = {}
         /\ nsCalls[t].err = "nil"
         /\ nsCalls[t].pc \notin {"close", "unmount", "delete"}

\* a Remove that was called after another had returned nil has returned
C19_Witness ==
  \E t \in Threads :
    /\ nsCalls[t].after
    /\ ReturnedNil(t)
    /\ nsCalls[t].did = {}
    /\ nsLog.closes = 1
    /\ nsLog.unmounts = 1
    /\ nsLog.deletes = 1

\* C20: Remove of a record that joined a given path closes the handle and
\* neither unmounts nor deletes the path; only the path of a pinned record
\* is unmounted and deleted
C20_JoinedPathIsLeftAlone ==
  namespace.nsPath = "given" =>
    /\ nsLog.unmounts = 0
    /\ nsLog.deletes = 0
    /\ nsFile.mounted
    /\ nsFile.exists
    /\ \A t \in Threads : nsCalls[t].pc \notin {"unmount", "delete"}

(***************************************************************************)
(* Properties of concurrent sandbox removal (SpecLock).                    *)
(***************************************************************************)
Removing(t) == movers[t].op = "RemoveSandbox"

\* C13: RemoveSandbox holds the state lock from before the platform cleanup
\* until after the deletion, deletes the sandbox from the map only after
\* the cleanup of the same call succeeded, and, when the cleanup fails,
\* returns the error without deleting
C13_RemoveCleansThenDeletesUnderLock ==
  [][\A t \in Threads :
       /\ (Removing(t) /\ movers[t].pc \in {"platform", "delete", "unlock"}) =>
            stateLock = t
       /\ (Removing(t) /\ movers[t].pc = "delete") =>
            movers[t].cleaned /\ movers[t].err = "nil"
       /\ \A i \in Pods :
            (Has(sandboxes, PodId(i)) /\ ~Has(sandboxes', PodId(i))) =>
              \E u \in Threads :
                /\ MoverAt(u, "RemoveSandbox", "delete")
                /\ movers[u].pod = i
                /\ movers[u].cleaned
                /\ stateLock = u
       /\ (Removing(t) /\ movers[t].pc = "done" /\ movers[t].err # "nil") =>
            ~movers[t].cleaned /\ ~movers[t].deleted
       /\ (Removing(t) /\ movers[t].pc = "done" /\ movers[t].deleted) =>
            movers[t].cleaned /\ movers[t].err = "nil"]_vars

\* a RemoveSandbox whose cleanup failed has returned the error and the
\* sandbox is still in the map
C13_Witness ==
  \E t \in Threads :
    /\ MoverAt(t, "RemoveSandbox", "done")
    /\ movers[t].err # "nil"
    /\ Has(sandboxes, PodId(movers[t].pod))
    /\ stateLock = 0

(***************************************************************************)
(* Properties of the interleaved rehydration and requests (SpecConc).      *)
(***************************************************************************)
\* C7: a reader sees of a sandbox that is being loaded either nothing or
\* the loaded sandbox (infra container set, state file written back, ids
\* indexed), and never a sandbox that the load, failing, takes back
C7_ReaderSeesNoneOrLoaded ==
  /\ seen.has =>
       /\ seen.infra = InfraId(seen.pod)
       /\ seen.written
       /\ seen.indexed
  /\ (loader.pc = "failed" /\ seen.pod = loader.pod) => ~seen.has

Finished(h) == handlers[h].pc \in {"done", "failed"}
PastReserve(h) == handlers[h].pc \in {"config", "register", "done", "failed"}
Rivals(h, g) == h # g /\ handlers[h].name = handlers[g].name

\* C10: of two handlers creating a container of the same name with different
\* ids exactly one obtains the reservation and succeeds, the other fails with
\* AlreadyExists, and no config.json, store entry or index entry exists for
\* the one that failed
C10_OneCreateWinsTheName ==
  /\ \A h, g \in Handlers :
       (Rivals(h, g) /\ PastReserve(h) /\ PastReserve(g)) =>
         /\ (handlers[h].pc = "failed") # (handlers[g].pc = "failed")
         /\ \E w \in {h, g} :
              /\ handlers[w].pc # "failed"
              /\ Has(ctrNameIndex, handlers[w].name)
              /\ ctrNameIndex[handlers[w].name] = HandlerCtrId(w)
  /\ \A h, g \in Handlers :
       (Rivals(h, g) /\ Finished(h) /\ Finished(g)) =>
         \E w \in {h, g} : \E l \in {h, g} \ {w} :
           handlers[w].res = "ok" /\ handlers[l].res = "AlreadyExists"
  /\ \A h \in Handlers :
       handlers[h].pc = "failed" =>
         /\ handlers[h].res = "AlreadyExists"
         /\ HandlerCtrId(h) \notin configs
         /\ ~Has(containers, HandlerCtrId(h))
         /\ HandlerCtrId(h) \notin ctrIDIndex

\* both handlers asked for the same name and have returned, one registered
\* in the store with its config.json written, the other refused
C10_Witness ==
  \E w, l \in Handlers :
    /\ Rivals(w, l)
    /\ handlers[w].pc = "done"
    /\ handlers[l].pc = "failed"
    /\ HandlerCtrId(w) \in configs
    /\ Has(containers, HandlerCtrId(w))
    /\ HandlerCtrId(l) \notin configs

(***************************************************************************)
(* Properties of the sandbox's namespaces (SpecSandbox).                   *)
(***************************************************************************)
\* the kind of the join that returned last
JoinedKind == ret.id[1]

\* C21: a join of kind K is given a path that does not exist, a path that is
\* no namespace file, or a namespace file of another kind than K: the join
\* returns an error and the sandbox's namespace records stay as they were
C21_JoinRejectsWhatIsNoNamespaceOfTheKind ==
  [][(ret'.op = "NsJoin" /\ ret'.name # ProcSelfNs(ret'.id[1])) =>
       (ret'.err # "nil" /\ sbNs' = sbNs)]_vars

\* C22: for every kind K, a join of kind K into a sandbox that has a
\* namespace record of kind K returns an error and leaves the record (its
\* path and its handle) as it was; a join of a namespace file of kind K into
\* a sandbox without a record of kind K succeeds and records the path
C22_JoinFailsOnlyOverAnExistingRecord ==
  [][ret'.op = "NsJoin" =>
       LET k == ret'.id[1]
       IN /\ Has(sbNs, k) => (ret'.err # "nil" /\ sbNs' = sbNs)
          /\ (~Has(sbNs, k) /\ ret'.name = ProcSelfNs(k)) =>
               /\ ret'.err = "nil"
               /\ Has(sbNs', k)
               /\ Path(sbNs'[k]) = ret'.name
               /\ \A x \in ManagedKinds \ {k} :
                    /\ Has(sbNs', x) <=> Has(sbNs, x)
                    /\ Has(sbNs, x) => sbNs'[x] = sbNs[x]]_vars

C22_Witness ==
  /\ ret.op = "NsJoin"
  /\ ret.err = "already"
  /\ Has(sbNs, JoinedKind)
  /\ sbNs[JoinedKind].initialized
  /\ \E x \in DOMAIN sbNs : ~sbNs[x].initialized /\ sbNs[x].nsPath = ProcSelfNs(x)

\* the would-be paths of the kinds of the request that was pinned last
WouldBePaths == [i \in DOMAIN pinCall.nsTypes |-> PinnedPath(pinCall.nsTypes[i])]

\* C23: when the helper exits with a failure, pinNamespaces has tried to
\* unmount the would-be path of every requested kind, also after an unmount
\* that failed, and returns an error and no namespace record
C23_FailedHelperUnmountsEveryPath ==
  (pinCall.func = "pinNamespaces" /\ pinCall.failed) =>
    /\ pinCall.unmounts = WouldBePaths
    /\ pinCall.err # "nil"
    /\ pinCall.namespaces = << >>
    /\ ret.op = "CreateNamespaces" => (ret.err # "nil" /\ ret.out = << >>)

C23_Witness ==
  /\ pinCall.func = "pinNamespaces"
  /\ pinCall.failed
  /\ Len(pinCall.unmounts) = MaxRequest
  /\ Len(pinCall.failedUmounts) > 0
  /\ pinCall.failedUmounts[1] = pinCall.unmounts[1]

\* the kinds a request names, and the kinds of the records it was returned
KindsRequested == {pinCall.nsTypes[i] : i \in DOMAIN pinCall.nsTypes}
KindsReturned == {pinCall.namespaces[i].nsType : i \in DOMAIN pinCall.namespaces}
ArgsGiven == {pinCall.args[i] : i \in DOMAIN pinCall.args}

\* C24: a request that names the user kind while no ID mapping is
\* configured has the user kind left out: the helper is not given -U, no
\* record of the user kind is returned, and a call without error returns
\* the records of exactly the other kinds; with an ID mapping, a call without
\* error returns one record per requested kind
C24_UserKindOmittedWithoutMappings ==
  (pinCall.func # "none" /\ KindsRequested \subseteq ManagedKinds) =>
    /\ (~pinCall.mappings /\ USERNS \in KindsRequested) =>
         /\ "-U" \notin ArgsGiven
         /\ USERNS \notin KindsReturned
         /\ pinCall.err = "nil" => KindsReturned = KindsRequested \ {USERNS}
    /\ (pinCall.mappings /\ pinCall.err = "nil") =>
         /\ KindsReturned = KindsRequested
         /\ Len(pinCall.namespaces) = Len(pinCall.nsTypes)

C26_NamespacePathsPreferRecords ==
  ret.op = "NamespacePaths" =>
    \A k \in ManagedKinds :
      IF Has(sbNs, k)
        THEN Has(ret.out, k) /\ ret.out[k] = sbNs[k].nsPath
      ELSE IF sbInfra.set /\ sbInfra.pid # ZeroPid /\ sbInfra.pid \in LivePids
        THEN Has(ret.out, k) /\ ret.out[k] = InfraNsFile(sbInfra.pid, k)
      ELSE ~Has(ret.out, k)

C26_Witness ==
  /\ ret.op = "NamespacePaths"
  /\ sbInfra.set
  /\ sbInfra.pid \in LivePids
  /\ \E k \in DOMAIN sbNs : ret.out[k] = sbNs[k].nsPath
  /\ \E k \in ManagedKinds \ DOMAIN sbNs : ret.out[k] = InfraNsFile(sbInfra.pid, k)

(***************************************************************************)
(* Properties of listing containers (SpecList).                            *)
(***************************************************************************)
\* the stored container satisfies every filter of the request
SatisfiesAll(filters, id) ==
  /\ Has(containers, id)
  /\ \A i \in DOMAIN filters : Accepts(filters[i], id, containers[id])

\* C27: ListContainers returns exactly the stored containers that satisfy
\* every filter of the request, each once; without a filter it returns
\* every stored container
C27_ListReturnsContainersMatchingAllFilters ==
  ret.op = "ListContainers" =>
    \A c \in AnyCtrs :
      IF SatisfiesAll(ret.name, c.id)
        THEN Has(ret.out, c.id) /\ ret.out[c.id] = 1
        ELSE ~Has(ret.out, c.id)

(***************************************************************************)
(* Properties of repeated stops (SpecStop).                                *)
(***************************************************************************)
\* C28: a stop of a container whose status is stopped already returns nil
\* and leaves the status and the recorded exit code as they were, in the
\* container object and in the runtime, however often it is repeated
C28_StopOfStoppedContainerChangesNothing ==
  [][(ret'.op = "StopContainerAndWait"
      /\ ctrState[ret'.id].status = "stopped") =>
       /\ ret'.err = "nil"
       /\ ctrState'[ret'.id] = ctrState[ret'.id]
       /\ runtimeState'[ret'.id] = runtimeState[ret'.id]]_vars

\* a container stopped with exit code 1 was stopped once more
C28_Witness ==
  /\ ret.op = "StopContainerAndWait"
  /\ ret.err = "nil"
  /\ Len(runtimeCalls) = 2
  /\ runtimeCalls[1].before = "stopped"
  /\ ctrState[ret.id] = Stopped(1)

(***************************************************************************)
(* Properties of ExecSync (SpecExec).                                      *)
(***************************************************************************)
TimesOutNow == execSync.proc = "running" /\ execSync'.proc = "killed"

\* C29: an ExecSync whose command outlives its deadline returns Timeout, an
\* error no other outcome of ExecSync returns; its process is killed; status
\* and exit code of every container stay as they were, the container's being
\* running, in the runtime and in the object; and a further ExecSync and a
\* stop of the container can succeed afterwards
C29_ExecSyncTimeoutLeavesContainerAlone ==
  [][/\ (ret'.op = "ExecSync" /\ ret'.err = "Timeout" /\ ret' # ret)
          => TimesOutNow
     /\ TimesOutNow =>
          LET id == execSync.id
          IN /\ ret'.op = "ExecSync" /\ ret'.id = id /\ ret'.err = "Timeout"
             /\ runtimeState' = runtimeState
             /\ ctrState' = ctrState
             /\ runtimeState'[id] = Running /\ ctrState'[id] = Running
             /\ \A t \in Timeouts :
                  ExecSyncStart(runtimeState', ctrState', id, t).err = "nil"
             /\ \A code \in ExitCodes :
                  StopContainerAndWait(runtimeState', ctrState', id, TRUE,
                                       code, TRUE).err = "nil"]_vars

\* a container was stopped after an ExecSync in it had timed out
C29_Witness ==
  /\ execSync.proc = "killed"
  /\ ret.op = "StopContainerAndWait"
  /\ ret.id = execSync.id
  /\ ret.err = "nil"
  /\ ctrState[ret.id].status = "stopped"

(***************************************************************************)
(* Properties of checkpoint and restore (SpecCheckpoint).                  *)
(***************************************************************************)
\* crio-cr restore with a container id and no other flag
RestoreById ==
  [import |-> NoArchive, keep |-> FALSE, pod |-> NoPod,
   tcpEstablished |-> FALSE]

FirstFailure(run) ==
  IF \E k \in 1..Len(run.args) : ~run.oks[k]
    THEN CHOOSE k \in 1..Len(run.args) :
           ~run.oks[k] /\ \A j \in 1..(k - 1) : run.oks[j]
    ELSE Len(run.args) + 1

\* the ids the output stream tells of, in its order
RECURSIVE IdsOf(_)
IdsOf(out) ==
  IF Len(out) = 0 THEN << >> ELSE out[1].ids \o IdsOf(Tail(out))

\* C31: a checkpoint or restore command given ids sends its requests in the
\* order of the arguments up to the first that fails and none after it,
\* exits non-zero exactly when one failed, and its output tells of the ids
\* that succeeded before
C31_FirstErrorKeepsPrecedingResults ==
  (cliRun.cmd \in {"checkpoint", "restore"} /\ Len(cliRun.args) > 0) =>
    LET k == FirstFailure(cliRun)
        n == Len(cliRun.args)
    IN /\ cliRun.sent = SubSeq(cliRun.args, 1, IF k > n THEN n ELSE k)
       /\ (cliRun.exit # 0) <=> (k <= n)
       /\ IdsOf(cliRun.out) = SubSeq(cliRun.args, 1, k - 1)

\* the same of the checkpoint command alone
C31_CheckpointKeepsPrecedingResults ==
  cliRun.cmd # "restore" => C31_FirstErrorKeepsPrecedingResults

(***************************************************************************)
(* Properties of concurrent removals (SpecLock, SpecStore).                 *)
(***************************************************************************)
\* C32: the platform cleanup of a sandbox runs at most once however two
\* RemoveSandbox calls for it interleave: a call runs removeSandboxPlatform
\* only for a sandbox that is still in the store, so the call that comes
\* second finds nothing to clean up
C32_ConcurrentRemoveCleansUpOnce ==
  [][\A t \in Threads :
       (MoverAt(t, "RemoveSandbox", "platform")
        /\ movers'[t].pc # "platform")
         => Has(sandboxes, PodId(movers[t].pod))]_vars

\* C33: once RemoveContainer has returned, the container is not in the
\* store: HasContainer is false and GetContainer finds nothing, whatever
\* calls came before
C33_RemovedContainerIsGone ==
  [][ret'.op = "RemoveContainer" =>
       /\ ~HasContainer(Store', ret'.id)
       /\ GetContainer(Store', ret'.id) = {}]_vars

\* ---- Properties of pinNamespaces' error returns (SpecSandbox) ----

\* C34: whenever pinNamespaces returns an error, none of the would-be paths
\* is left mounted and no handle it opened is left open
C34_FailedPinLeavesNothingBehind ==
  (pinCall.func = "pinNamespaces" /\ pinCall.err # "nil") =>
    /\ pinCall.mounted = {}
    /\ pinCall.opened = << >>

\* the same for the two error returns that come before the paths are opened
C34_EarlyErrorsLeaveNoHandle ==
  (pinCall.func = "pinNamespaces" /\ pinCall.err \in {"invalidType", "pin", "cleanup"}) =>
    /\ pinCall.opened = << >>
    /\ pinCall.err \in {"invalidType", "pin"} => pinCall.mounted = {}

\* ---- Properties of the daemon's shutdown (SpecDaemon, SpecDaemonFair) ----

\* what the shutdown sequence changes: the servers, the context, the flag,
\* the storage-level shutdowns
Servers(d) ==
  <<d.graceful, d.grpc, d.http, d.listener, d.mux, d.stream, d.monitors,
    d.cancelled, d.shutdowns>>

\* C35: the handler begins the shutdown sequence on SIGINT and SIGTERM only;
\* on SIGUSR1 it dumps the stacks, on SIGUSR2 it collects garbage, and on
\* these, SIGPIPE and SIGHUP it stops no server, does not cancel the context
\* and goes on waiting for the next signal; once the sequence has begun the
\* handler takes no further signal, so the sequence is run once
C35_OnlyInterruptAndTermShutDown ==
  [][/\ Len(daemon'.sig) < Len(daemon.sig) =>
          LET s == Head(daemon.sig)
          IN /\ daemon.handler = 0
             /\ s \in ShutdownSignals => daemon'.handler = 1
             /\ s \notin ShutdownSignals =>
                  /\ daemon'.handler = 0
                  /\ Servers(daemon') = Servers(daemon)
                  /\ daemon'.dumps = daemon.dumps + (IF s = "SIGUSR1" THEN 1 ELSE 0)
                  /\ daemon'.gcs = daemon.gcs + (IF s = "SIGUSR2" THEN 1 ELSE 0)
     /\ daemon.handler > 0 => daemon'.handler >= daemon.handler]_vars

\* a SIGUSR1 was handled, then a shutdown signal, and the handler has
\* returned after its sequence
C35_Witness ==
  /\ daemon.dumps = 1
  /\ daemon.delivered = MaxSignals
  /\ daemon.sig = << >>
  /\ daemon.handler = HandlerDone

\* C36: in a shutdown begun by SIGINT or SIGTERM with no server failing by
\* itself, the context is cancelled only after the gRPC server, the HTTP
\* server, both stream servers and both monitor sets were stopped, a
\* storage-level Shutdown is invoked only after the context was cancelled,
\* the flag is set once the gRPC server is stopped, and the serve loop's
\* error over the closed listener is not logged as a failure
C36_ShutdownOrder ==
  [][(daemon'.handler > 0 /\ ~daemon'.failed) =>
       /\ daemon'.cancelled =>
            /\ daemon'.grpc = "stopped"
            /\ daemon'.http = "stopped"
            /\ \A v \in Versions :
                 daemon'.stream[v] # "serving" /\ daemon'.monitors[v]
       /\ daemon'.shutdowns # daemon.shutdowns => daemon.cancelled
       /\ daemon'.grpc = "stopped" => daemon'.graceful
       /\ daemon'.mux # "failure"]_vars

\* the parts of C36 about the gRPC server, the flag and the serve loop
C36_ContextOutlivesGrpcAndFlagIsSet ==
  (daemon.handler > 0 /\ ~daemon.failed) =>
    /\ daemon.cancelled => daemon.grpc = "stopped"
    /\ daemon.grpc = "stopped" => daemon.graceful
    /\ daemon.mux # "failure"

\* C37: once one of the five events of the select has occurred, the main
\* action returns in the end, with or without a signal
C37_MainActionReturns ==
  (daemon.main = 1 /\ SelectReady(daemon)) ~> (daemon.main = MainDone)

\* the main action returns only after every channel it waits on was closed
\* or has delivered its value
C37_ReturnsAfterEveryChannel ==
  daemon.main = MainDone =>
    /\ \A v \in Versions : daemon.stream[v] = "closed" /\ daemon.monitors[v]
    /\ daemon.mux # "serving"
    /\ daemon.cancelled

\* after a signal the main action returns in the end
C37_ReturnsAfterSignal ==
  (daemon.handler > 0) ~> (daemon.main = MainDone)

\* C38: the storage-level Shutdown of each service is invoked at most once
\* in a run of the daemon
C38_ShutdownAtMostOnce ==
  \A v \in Versions : daemon.shutdowns[v] <= 1

\* ---- Properties of the experimental service's handlers (SpecService) ----

\* the handler that returned last
ServiceReturned == ret.op \in {"service.CheckpointContainer", "service.RestoreContainer"}

\* the options the server was sent are those of the request
PassedUnchanged(req, r) ==
  LET o == req.Options
      c == o.CommonOptions
      so == r.Options
      sc == so.CommonOptions
  IN /\ r.ID = req.Id
     /\ sc.Keep = c.Keep
     /\ sc.TCPEstablished = c.TcpEstablished
     /\ sc.Archive = c.Archive
     /\ sc.Compression = c.Compression
     /\ ret.op = "service.CheckpointContainer" =>
          so.LeaveRunning = o.LeaveRunning
     /\ ret.op = "service.RestoreContainer" =>
          /\ so.Name = o.Name
          /\ so.PodSandboxID = o.PodSandboxId
          /\ so.Labels = o.Labels
          /\ so.Annotations = o.Annotations

\* C39: the handlers of the experimental service never crash: a request
\* without Options or without Options.CommonOptions gets an error or the
\* defaults and leaves the server's state as it was; a well-formed request
\* is sent to the server with every option unchanged, and the server's
\* error is returned as it is with a nil response
C39_HandlersNeverCrash ==
  [][ServiceReturned' =>
       /\ ret'.err # "panic"
       /\ NilDereference(ret'.out.req) => UNCHANGED <<storeVars, ociVars, cpVars>>
       /\ ~NilDereference(ret'.out.req) =>
            /\ ret'.out.sent # << >>
            /\ ret'.err # "nil" => ret'.out.res = << >>]_vars

\* the part of C39 about well-formed requests
C39_WellFormedRequestPassedUnchanged ==
  (ServiceReturned /\ ~NilDereference(ret.out.req)) =>
    /\ ret.err # "panic"
    /\ ret.out.sent # << >>
    /\ PassedUnchanged(Pointee(ret.out.req), ret.out.sent[1])
    /\ ret.err # "nil" <=> ret.out.res = << >>

====
